---- MODULE Spec2Model ----
(***************************************************************************)
(* rss-tui: feed synchronisation and persistence (src/src/rss.rs).         *)
(*                                                                         *)
(* The model keeps the sqlite database as one record `db` (the feeds and   *)
(* entries tables, the two AUTOINCREMENT sequences, user_version and the   *)
(* schema objects), the                                                    *)
(* wall clock `now` (in days), the EntryMetadata value the caller holds and *)
(* the streaming parser at work on one document, and the feed URL the user *)
(* entered last with what the URL normalizer made of it.                   *)
(* Every handler is an operator from the database and its inputs to its    *)
(* result (Ok or the failing stage) and the database it leaves; the        *)
(* actions apply the handlers.                                             *)
(*                                                                         *)
(* A transaction body is the sequence of SQL statements its closure        *)
(* executes; `fault` names the statement (or the COMMIT) at which the      *)
(* storage layer fails, 0 meaning no failure.                              *)
(***************************************************************************)
EXTENDS Integers, Sequences, FiniteSets, TLC

VARIABLES db, now, held, parser, entered_url, list

vars == <<db, now, held, parser, entered_url, list>>

(***************************************************************************)
(* Bounds of the model.                                                    *)
(***************************************************************************)
MaxFeedId == 2
MaxEntryId == 2
MaxTicks == 1
MaxFault == 3
MaxEvents == 3
MaxElements == 2
MaxItems == 4

\* rss.rs:19
ENTRY_RETENTION_DAYS == 365

\* Option<T>: None is the empty tuple, Some(v) the one-element tuple.
None == <<>>
Some(v) == <<v>>

Urls == {"u1", "u2"}
ETags == {"e1"}

\* the titles update_feed_title is called with
NewTitles == {"R"}

\* IncomingEntry values served by the remote hosts: the same link under two
\* titles, without and with a date, an entry without a link, and an entry
\* with another link dated one day later.
Undated == [title |-> Some("t1"), pub_date |-> None,    link |-> Some("a")]
Dated   == [title |-> Some("t2"), pub_date |-> Some(0), link |-> Some("a")]
NoLink  == [title |-> Some("t1"), pub_date |-> None,    link |-> None]
DayOne  == [title |-> Some("t2"), pub_date |-> Some(1), link |-> Some("b")]

IncomingEntries == { Undated, Dated, NoLink, DayOne }

\* the feed-level part of a parsed document (title, site link, feed_kind)
IncomingFeedMetas ==
    { [title |-> Some("T1"), link |-> Some("h"), feed_kind |-> "Atom"] }

\* the item lists of the documents a host can serve
Docs == { <<>>, <<Undated>>, <<Dated>>, <<NoLink, Dated>>, <<Undated, Dated>> }

\* the item lists served to the runs that watch the retention window
RetentionDocs == { <<>>, <<Undated>>, <<DayOne>>, <<Undated, Dated>> }


OptETags == {None} \cup { Some(e) : e \in ETags }

\* What the remote host answers to one GET.  `body` is what
\* parse_feed_streaming makes of the bytes: a parse failure, or the feed-level
\* fields and the item list.
Bodies ==
    { [ok |-> FALSE] } \cup
    { [ok |-> TRUE, feed |-> m, entries |-> d] : m \in IncomingFeedMetas, d \in Docs }

\* Every document is served without an ETag header, and the empty document
\* also with each ETag.
Responses ==
    { [kind |-> "transport"] } \cup
    { [kind |-> "http", status |-> 200, etag |-> None, body |-> b] : b \in Bodies } \cup
    { [kind |-> "http", status |-> 200, etag |-> e, body |-> b] :
          e \in OptETags,
          b \in { x \in Bodies : x.ok /\ x.entries = <<>> } } \cup
    { [kind |-> "http", status |-> s, etag |-> None] : s \in {304, 404} }

\* a document that declares another title, site link and kind
OtherFeedMeta == [title |-> Some("T2"), link |-> Some("h2"), feed_kind |-> "RSS"]

RetitledResponses ==
    { [kind |-> "http", status |-> 200, etag |-> None,
       body |-> [ok |-> TRUE, feed |-> OtherFeedMeta, entries |-> d]] :
          d \in { <<>>, <<Undated>> } }

\* The responses over the retention documents: each without an ETag, the
\* empty one also with an ETag, a 304 and a transport failure.
RetentionResponses ==
    { [kind |-> "transport"] } \cup
    { [kind |-> "http", status |-> 200, etag |-> None,
       body |-> [ok |-> TRUE, feed |-> m, entries |-> d]] :
          m \in IncomingFeedMetas, d \in RetentionDocs } \cup
    { [kind |-> "http", status |-> 200, etag |-> Some(e),
       body |-> [ok |-> TRUE, feed |-> m, entries |-> <<>>]] :
          m \in IncomingFeedMetas, e \in ETags } \cup
    { [kind |-> "http", status |-> 304, etag |-> None] }

(***************************************************************************)
(* fetch_feed (rss.rs:691-746): the classification of one response.        *)
(***************************************************************************)
\* rss.rs:653-689: the message for a status, as its leading words, the
\* status where the text formats it, and the url
http_status_error_message(status, url) ==
    CASE status = 400 -> <<"bad request (400) fetching feed", url>>
      [] status = 401 -> <<"unauthorized (401) fetching feed", url>>
      [] status = 403 -> <<"forbidden (403) fetching feed", url>>
      [] status = 404 -> <<"not found (404) fetching feed", url>>
      [] status = 408 -> <<"request timeout (408) fetching feed", url>>
      [] status = 429 -> <<"too many requests (429) fetching feed", url>>
      [] status \in 500..599 -> <<"server error", status, "fetching feed", url>>
      [] status \in 300..399 -> <<"redirect error", status, url>>
      [] OTHER -> <<"unexpected status code", status, "fetching feed", url>>

\* request.call() of the ureq agent (rss.rs:703): Err for a failure of the
\* transport and, as ureq::Error::Status, for every response whose status
\* is 400 or more; Ok with the response otherwise
call(resp) ==
    IF resp.kind = "transport"
    THEN [ok |-> FALSE, error |-> <<"Transport">>]
    ELSE IF resp.status >= 400
    THEN [ok |-> FALSE, error |-> <<"Status", resp.status>>]
    ELSE [ok |-> TRUE]

\* a response header, and the lower case of the header names in use
Header(name, value) == [name |-> name, value |-> value]
header_to_lowercase(name) ==
    CASE name \in { "ETag", "ETAG", "etag" } -> "etag"
      [] name = "Content-Type" -> "content-type"
      [] OTHER -> name

\* the lookup matching the name ETag as it is written
etag_header_exact_case(headers) ==
    LET found == { i \in 1..Len(headers) : headers[i].name = "ETag" }
    IN  IF found = {} THEN None
        ELSE Some(headers[CHOOSE i \in found : \A j \in found : i <= j].value)
\* rss.rs:715-723: the value of the first header whose name is etag in
\* lower case
etag_header(headers) ==
    LET found == { i \in 1..Len(headers) : header_to_lowercase(headers[i].name) = "etag" }
    IN  IF found = {} THEN None
        ELSE Some(headers[CHOOSE i \in found : \A j \in found : i <= j].value)

\* the ETag of a response: looked up among its headers, or given as such
\* by the responses that do not spell their headers out
response_etag(resp) ==
    IF "headers" \in DOMAIN resp THEN etag_header(resp.headers) ELSE resp.etag

\* An error carries the stage that failed (why), its message (msg) and,
\* under a context message, the error it wraps (source).
fetch_feed(url, current_etag, resp) ==
    IF ~call(resp).ok
    THEN [r |-> "err",
          why |-> IF resp.kind = "transport" THEN "transport" ELSE "status",
          msg |-> <<"network error fetching feed", url>>,
          source |-> call(resp).error,
          sent |-> current_etag]
    ELSE IF resp.status = 200
    THEN IF resp.body.ok
         THEN [r |-> "miss", sent |-> current_etag,
               feed |-> [title       |-> resp.body.feed.title,
                         feed_link   |-> Some(url),
                         link        |-> resp.body.feed.link,
                         feed_kind   |-> resp.body.feed.feed_kind,
                         latest_etag |-> response_etag(resp)],
               entries |-> resp.body.entries]
         ELSE [r |-> "err", why |-> "parse",
               msg |-> <<"failed to parse feed from", url>>,
               source |-> <<"parse">>,
               sent |-> current_etag]
    ELSE IF resp.status = 304
    THEN [r |-> "hit", sent |-> current_etag]
    ELSE [r |-> "err", why |-> "status",
          msg |-> http_status_error_message(resp.status, url),
          source |-> <<>>,
          sent |-> current_etag]

(***************************************************************************)
(* The SQL statements.  Each operator gives the effect of one statement    *)
(* on the database record d and answers [ok, db].  Before initialize_db    *)
(* has run (user_version 0) the tables do not exist and every statement    *)
(* fails.                                                                  *)
(***************************************************************************)
Done(d) == [ok |-> TRUE, db |-> d]
Failed(d) == [ok |-> FALSE, db |-> d]

\* create_feed on a schema without the unique index on feed_link
create_feed_no_unique(d, feed) ==
    IF d.user_version = 0
    THEN Failed(d)
    ELSE Done([d EXCEPT
            !.feeds = @ \cup { [id           |-> d.seq_feeds + 1,
                                title        |-> feed.title,
                                feed_link    |-> feed.feed_link,
                                link         |-> feed.link,
                                feed_kind    |-> feed.feed_kind,
                                refreshed_at |-> None,
                                latest_etag  |-> None] },
            !.seq_feeds = @ + 1])

\* rss.rs:887-897; the unique index feeds_feed_link is rss.rs:877-880.
\* latest_etag is not among the inserted columns.
create_feed(d, feed) ==
    IF d.user_version = 0
    THEN Failed(d)
    ELSE IF /\ "feeds_feed_link" \in d.schema
            /\ \E f \in d.feeds : f.feed_link # None /\ f.feed_link = feed.feed_link
    THEN Failed(d)
    ELSE Done([d EXCEPT
            !.feeds = @ \cup { [id           |-> d.seq_feeds + 1,
                                title        |-> feed.title,
                                feed_link    |-> feed.feed_link,
                                link         |-> feed.link,
                                feed_kind    |-> feed.feed_kind,
                                refreshed_at |-> None,
                                latest_etag  |-> None] },
            !.seq_feeds = @ + 1])

\* one execution of the prepared INSERT of add_entries_to_feed, rss.rs:924-933
insert_entry(d, feed_id, entry, t) ==
    IF d.user_version = 0
    THEN Failed(d)
    ELSE Done([d EXCEPT
            !.entries = @ \cup { [id          |-> d.seq_entries + 1,
                                  feed_id     |-> feed_id,
                                  title       |-> entry.title,
                                  pub_date    |-> entry.pub_date,
                                  link        |-> entry.link,
                                  read_at     |-> None,
                                  inserted_at |-> t] },
            !.seq_entries = @ + 1])

\* rss.rs:966-973
update_feed_refreshed_at(d, feed_id, t) ==
    IF d.user_version = 0
    THEN Failed(d)
    ELSE Done([d EXCEPT !.feeds =
            { IF f.id = feed_id THEN [f EXCEPT !.refreshed_at = Some(t)] ELSE f
              : f \in @ }])

\* rss.rs:975-986
update_feed_etag(d, feed_id, latest_etag) ==
    IF d.user_version = 0 \/ "feeds.latest_etag" \notin d.schema
    THEN Failed(d)
    ELSE Done([d EXCEPT !.feeds =
            { IF f.id = feed_id THEN [f EXCEPT !.latest_etag = latest_etag] ELSE f
              : f \in @ }])

\* COALESCE(pub_date, inserted_at)
Coalesce(e) == IF e.pub_date # None THEN e.pub_date[1] ELSE e.inserted_at

\* the pruning with the cutoff itself counted as expired
prune_old_entries_for_feed_inclusive(d, feed_id, max_age_days, t) ==
    IF d.user_version = 0
    THEN Failed(d)
    ELSE LET cutoff == t - max_age_days
         IN  Done([d EXCEPT !.entries =
                { e \in @ : ~(e.feed_id = feed_id /\ Coalesce(e) <= cutoff) }])

\* rss.rs:748-759
prune_old_entries_for_feed(d, feed_id, max_age_days, t) ==
    IF d.user_version = 0
    THEN Failed(d)
    ELSE LET cutoff == t - max_age_days
         IN  Done([d EXCEPT !.entries =
                { e \in @ : ~(e.feed_id = feed_id /\ Coalesce(e) < cutoff) }])

\* DELETE FROM feeds WHERE id = ?1, rss.rs:901
delete_feed_row(d, feed_id) ==
    IF d.user_version = 0
    THEN Failed(d)
    ELSE Done([d EXCEPT !.feeds = { f \in @ : f.id # feed_id }])

\* the DELETE on entries without its WHERE clause
delete_feed_entries_every_feed(d, feed_id) ==
    IF d.user_version = 0
    THEN Failed(d)
    ELSE Done([d EXCEPT !.entries = {}])

\* DELETE FROM entries WHERE feed_id = ?1, rss.rs:902
delete_feed_entries(d, feed_id) ==
    IF d.user_version = 0
    THEN Failed(d)
    ELSE Done([d EXCEPT !.entries = { e \in @ : e.feed_id # feed_id }])

\* the UPDATE of the title without its WHERE clause
set_feed_title_every_row(d, feed_id, new_title) ==
    IF d.user_version = 0
    THEN Failed(d)
    ELSE Done([d EXCEPT !.feeds = { [f EXCEPT !.title = Some(new_title)] : f \in @ }])

\* UPDATE feeds SET title = ?2 WHERE id = ?1, rss.rs:994-997
set_feed_title(d, feed_id, new_title) ==
    IF d.user_version = 0
    THEN Failed(d)
    ELSE Done([d EXCEPT !.feeds =
            { IF f.id = feed_id THEN [f EXCEPT !.title = Some(new_title)] ELSE f
              : f \in @ }])

\* the UPDATE of read_at without its WHERE clause
set_read_at_every_row(d, entry_id, read_at) ==
    IF d.user_version = 0
    THEN Failed(d)
    ELSE Done([d EXCEPT !.entries = { [e EXCEPT !.read_at = read_at] : e \in @ }])

\* UPDATE entries SET read_at = ... WHERE id = ?1, rss.rs:249-259
set_read_at(d, entry_id, read_at) ==
    IF d.user_version = 0
    THEN Failed(d)
    ELSE Done([d EXCEPT !.entries =
            { IF e.id = entry_id THEN [e EXCEPT !.read_at = read_at] ELSE e
              : e \in @ }])

\* The statements of the migrations, rss.rs:823-885.
\* tx.pragma_update(None, "user_version", v)
pragma_update_user_version(d, v) == Done([d EXCEPT !.user_version = v])

\* CREATE TABLE IF NOT EXISTS
create_table_if_not_exists(d, name) == Done([d EXCEPT !.schema = @ \cup {name}])

\* CREATE INDEX IF NOT EXISTS name ON tbl (...)
create_index_if_not_exists(d, name, tbl) ==
    IF tbl \notin d.schema THEN Failed(d)
    ELSE Done([d EXCEPT !.schema = @ \cup {name}])

\* ALTER TABLE tbl ADD COLUMN col: no such table and duplicate column name
\* are errors; the rows there are get NULL in the new column
alter_table_add_column(d, tbl, col) ==
    IF tbl \notin d.schema \/ col \in d.schema THEN Failed(d)
    ELSE Done([d EXCEPT !.schema = @ \cup {col}])

\* CREATE UNIQUE INDEX IF NOT EXISTS feeds_feed_link ON feeds (feed_link):
\* building the index fails when two rows have the same non-NULL feed_link
create_unique_index_if_not_exists(d, name) ==
    IF name \in d.schema THEN Done(d)
    ELSE IF "feeds" \notin d.schema THEN Failed(d)
    ELSE IF \E f, g \in d.feeds :
                f.id # g.id /\ f.feed_link # None /\ f.feed_link = g.feed_link
    THEN Failed(d)
    ELSE Done([d EXCEPT !.schema = @ \cup {name}])

\* one statement of a transaction body
Exec(d, s, t) ==
    CASE s.k = "create_feed"      -> create_feed(d, s.feed)
      [] s.k = "insert_entry"     -> insert_entry(d, s.feed_id, s.entry, t)
      [] s.k = "refreshed_at"     -> update_feed_refreshed_at(d, s.feed_id, t)
      [] s.k = "etag"             -> update_feed_etag(d, s.feed_id, s.etag)
      [] s.k = "prune"            -> prune_old_entries_for_feed(d, s.feed_id, s.days, t)
      [] s.k = "delete_feed"      -> delete_feed_row(d, s.feed_id)
      [] s.k = "delete_entries"   -> delete_feed_entries(d, s.feed_id)
      [] s.k = "title"            -> set_feed_title(d, s.feed_id, s.title)
      [] s.k = "query_user_version" -> Done(d)
      [] s.k = "user_version"     -> pragma_update_user_version(d, s.v)
      [] s.k = "create_table"     -> create_table_if_not_exists(d, s.name)
      [] s.k = "create_index"     -> create_index_if_not_exists(d, s.name, s.tbl)
      [] s.k = "add_column"       -> alter_table_add_column(d, s.tbl, s.col)
      [] s.k = "unique_index"     -> create_unique_index_if_not_exists(d, s.name)

\* The closure of a transaction: its statements run in order until one
\* fails, by its own semantics or because the storage layer fails at the
\* statement numbered `fault`.  Answers [ok, db, n]: whether the closure
\* returned Ok, the database as the closure left it, and the number of
\* statements that took effect.
RECURSIVE RunFrom(_, _, _, _, _)
RunFrom(d, stmts, i, fault, t) ==
    IF i > Len(stmts)
    THEN [ok |-> TRUE, db |-> d, n |-> i - 1]
    ELSE IF fault = i
    THEN [ok |-> FALSE, db |-> d, n |-> i - 1]
    ELSE LET r == Exec(d, stmts[i], t)
         IN  IF r.ok
             THEN RunFrom(r.db, stmts, i + 1, fault, t)
             ELSE [ok |-> FALSE, db |-> d, n |-> i - 1]

Run(d, stmts, fault, t) == RunFrom(d, stmts, 1, fault, t)

\* the fault positions: 0 is no failure, k the failure of the k-th statement
\* of the body, or of the COMMIT when the body has k - 1 statements
FaultPoints == 0 .. MaxFault

\* in_transaction without the rollback: what the closure wrote stays
in_transaction_no_rollback(d, stmts, fault, t) ==
    LET r == Run(d, stmts, fault, t)
    IN  IF r.ok /\ fault # Len(stmts) + 1
        THEN [ok |-> TRUE, db |-> r.db]
        ELSE [ok |-> FALSE, db |-> r.db]

\* rss.rs:1277-1290.  The closure's error, or a failing COMMIT, drops the
\* rusqlite Transaction, which rolls back.
in_transaction(d, stmts, fault, t) ==
    LET r == Run(d, stmts, fault, t)
    IN  IF r.ok /\ fault # Len(stmts) + 1
        THEN [ok |-> TRUE, db |-> r.db]
        ELSE [ok |-> FALSE, db |-> d]


(***************************************************************************)
(* Reads.                                                                  *)
(***************************************************************************)
FeedRows(d, feed_id) == { f \in d.feeds : f.id = feed_id }

\* rss.rs:1002-1010: Err when the tables or the row are missing, or when
\* feed_link is NULL (the column is read as String)
get_feed_url(d, feed_id) ==
    IF d.user_version = 0 \/ FeedRows(d, feed_id) = {}
    THEN [ok |-> FALSE]
    ELSE LET f == CHOOSE f \in FeedRows(d, feed_id) : TRUE
         IN  IF f.feed_link = None
             THEN [ok |-> FALSE]
             ELSE [ok |-> TRUE, url |-> f.feed_link[1]]

\* rss.rs:1012-1023
get_feed_latest_etag(d, feed_id) ==
    IF \/ d.user_version = 0
       \/ "feeds.latest_etag" \notin d.schema
       \/ FeedRows(d, feed_id) = {}
    THEN [ok |-> FALSE]
    ELSE [ok |-> TRUE, etag |-> (CHOOSE f \in FeedRows(d, feed_id) : TRUE).latest_etag]

\* the predicate with ShowRead selecting every entry
MatchesReadMode_read_is_all(e, read_mode) ==
    CASE read_mode = "ShowUnread" -> e.read_at = None
      [] read_mode = "ShowRead"   -> TRUE
      [] read_mode = "All"        -> TRUE

\* the read_at predicate of get_entries_metas / get_entries_links
MatchesReadMode(e, read_mode) ==
    CASE read_mode = "ShowUnread" -> e.read_at = None
      [] read_mode = "ShowRead"   -> e.read_at # None
      [] read_mode = "All"        -> TRUE

\* rss.rs:1249-1275.  The caller collects the result into a HashSet, so the
\* model keeps the set of the (optional) links of the selected rows.
get_entries_links(d, read_mode, feed_id) ==
    { e.link : e \in { x \in d.entries :
                          x.feed_id = feed_id /\ MatchesReadMode(x, read_mode) } }

\* the orderings of the rows S in which no row stands before a row that
\* Before puts first
Orderings(S, Before(_, _)) ==
    { q \in [1..Cardinality(S) -> S] :
        /\ \A i, j \in 1..Cardinality(S) : i # j => q[i] # q[j]
        /\ \A i, j \in 1..Cardinality(S) : i < j => ~Before(q[j], q[i]) }

\* a NULL sorts below every value
SortKey(opt) == IF opt = None THEN -1 ELSE opt[1]

\* ORDER BY inserted_at DESC alone
OrderByInsertedAtOnly(a, b) == a.inserted_at > b.inserted_at
\* ORDER BY pub_date DESC, inserted_at DESC
OrderByPubDateThenInsertedAt(a, b) ==
    \/ SortKey(a.pub_date) > SortKey(b.pub_date)
    \/ /\ SortKey(a.pub_date) = SortKey(b.pub_date)
       /\ a.inserted_at > b.inserted_at

\* the listing ordered by insertion time only
get_entries_metas_by_inserted_at(d, read_mode, feed_id) ==
    IF d.user_version = 0
    THEN [ok |-> FALSE, rows |-> {}]
    ELSE [ok |-> TRUE,
          rows |-> Orderings({ e \in d.entries :
                                  e.feed_id = feed_id /\ MatchesReadMode(e, read_mode) },
                             OrderByInsertedAtOnly)]

\* rss.rs:1166-1217.  `rows` is the set of the row sequences the query can
\* answer with: rows that tie on both sort keys come in any order.
get_entries_metas(d, read_mode, feed_id) ==
    IF d.user_version = 0
    THEN [ok |-> FALSE, rows |-> {}]
    ELSE [ok |-> TRUE,
          rows |-> Orderings({ e \in d.entries :
                                  e.feed_id = feed_id /\ MatchesReadMode(e, read_mode) },
                             OrderByPubDateThenInsertedAt)]

\* rss.rs:1119-1149
get_entry_meta_rows(d, entry_id) == { e \in d.entries : e.id = entry_id }

(***************************************************************************)
(* The link arithmetic of refresh_feed, rss.rs:780-803.                    *)
(***************************************************************************)
\* flat_map(|item| &item.link) collected into a HashSet
remote_items_links(remote_items) ==
    { remote_items[i].link[1] :
        i \in { j \in 1..Len(remote_items) : remote_items[j].link # None } }

\* get_entries_links(..).into_iter().flatten() collected into a HashSet
local_entries_links(d, feed_id) ==
    { l[1] : l \in { x \in get_entries_links(d, "All", feed_id) : x # None } }

\* the filter with an item without a link counted as new
IsNewItem_none_is_new(item, difference) ==
    IF item.link # None THEN item.link[1] \in difference ELSE TRUE

IsNewItem(item, difference) ==
    IF item.link # None THEN item.link[1] \in difference ELSE FALSE

\* the filter without the subtraction of the local links
items_to_add_no_difference(remote_items, local_links) ==
    LET difference == remote_items_links(remote_items)
        Keep(item) == IsNewItem(item, difference)
    IN  SelectSeq(remote_items, Keep)

items_to_add(remote_items, local_links) ==
    LET difference == remote_items_links(remote_items) \ local_links
        Keep(item) == IsNewItem(item, difference)
    IN  SelectSeq(remote_items, Keep)

(***************************************************************************)
(* Transaction bodies.                                                     *)
(***************************************************************************)
\* rss.rs:907-938: one INSERT per entry, in order
add_entries_to_feed(feed_id, items) ==
    [ i \in 1..Len(items) |->
        [k |-> "insert_entry", feed_id |-> feed_id, entry |-> items[i]] ]

\* the subscribe body with the retention pruning of a refresh appended
subscribe_body_pruning(d, fetched) ==
    <<[k |-> "create_feed", feed |-> fetched.feed]>>
        \o add_entries_to_feed(d.seq_feeds + 1, fetched.entries)
        \o <<[k |-> "prune", feed_id |-> d.seq_feeds + 1,
              days |-> ENTRY_RETENTION_DAYS]>>

\* rss.rs:618-633.  create_feed returns the id the feeds sequence hands out.
subscribe_body(d, fetched) ==
    <<[k |-> "create_feed", feed |-> fetched.feed]>>
        \o add_entries_to_feed(d.seq_feeds + 1, fetched.entries)

\* the cache-miss body with the pruning run before the inserts
refresh_miss_body_prune_first(d, feed_id, fetched) ==
    << [k |-> "prune", feed_id |-> feed_id, days |-> ENTRY_RETENTION_DAYS] >>
    \o add_entries_to_feed(feed_id,
        items_to_add(fetched.entries, local_entries_links(d, feed_id)))
    \o << [k |-> "refreshed_at", feed_id |-> feed_id],
          [k |-> "etag", feed_id |-> feed_id, etag |-> fetched.feed.latest_etag] >>

\* rss.rs:805-811
refresh_miss_body(d, feed_id, fetched) ==
    add_entries_to_feed(feed_id,
        items_to_add(fetched.entries, local_entries_links(d, feed_id)))
    \o << [k |-> "refreshed_at", feed_id |-> feed_id],
          [k |-> "etag", feed_id |-> feed_id, etag |-> fetched.feed.latest_etag],
          [k |-> "prune", feed_id |-> feed_id, days |-> ENTRY_RETENTION_DAYS] >>

\* the cache-hit body without the retention pruning
refresh_hit_body_no_prune(feed_id) ==
    << [k |-> "refreshed_at", feed_id |-> feed_id] >>

\* rss.rs:813-817
refresh_hit_body(feed_id) ==
    << [k |-> "refreshed_at", feed_id |-> feed_id],
       [k |-> "prune", feed_id |-> feed_id, days |-> ENTRY_RETENTION_DAYS] >>

\* delete_feed without the DELETE on entries
delete_feed_body_feed_only(feed_id) ==
    << [k |-> "delete_feed", feed_id |-> feed_id] >>

\* rss.rs:900-904
delete_feed_body(feed_id) ==
    << [k |-> "delete_feed", feed_id |-> feed_id],
       [k |-> "delete_entries", feed_id |-> feed_id] >>

\* rss.rs:993-999
update_feed_title_body(feed_id, new_title) ==
    << [k |-> "title", feed_id |-> feed_id, title |-> new_title] >>

\* how many INSERTs into entries a body holds
NumInserts(stmts) == Cardinality({ i \in 1..Len(stmts) : stmts[i].k = "insert_entry" })


\* ORDER BY e.pub_date DESC, e.inserted_at DESC over the joined rows
OrderJoinedRows(a, b) == OrderByPubDateThenInsertedAt(a.entry, b.entry)

\* the combined view without its WHERE clause
get_all_entries_with_feed_name(d) ==
    IF d.user_version = 0
    THEN [ok |-> FALSE, rows |-> {}]
    ELSE [ok |-> TRUE,
          rows |-> Orderings(UNION { { [feed_title |-> IF f.title = None THEN "?"
                                                       ELSE f.title[1],
                                        entry |-> e] :
                                          f \in { g \in d.feeds : g.id = e.feed_id } } :
                                      e \in d.entries },
                             OrderJoinedRows)]

\* rss.rs:1219-1247: the unread entries joined with their feed rows, each
\* with the title of its feed ("?" when the title is NULL)
get_all_unread_entries_with_feed_name(d) ==
    IF d.user_version = 0
    THEN [ok |-> FALSE, rows |-> {}]
    ELSE [ok |-> TRUE,
          rows |-> Orderings(UNION { { [feed_title |-> IF f.title = None THEN "?"
                                                       ELSE f.title[1],
                                        entry |-> e] :
                                          f \in { g \in d.feeds : g.id = e.feed_id } } :
                                      e \in { x \in d.entries : x.read_at = None } },
                             OrderJoinedRows)]

(***************************************************************************)
(* The handlers.  Each answers [ok, why, db]: whether it returned Ok, the  *)
(* stage that failed otherwise, and the database it leaves behind.         *)
(***************************************************************************)
Ok(d) == [ok |-> TRUE, why |-> "", db |-> d]
Err(why, d) == [ok |-> FALSE, why |-> why, db |-> d]

\* The three migrations of initialize_db, each a version bump followed by
\* its schema statements (rss.rs:827-866, 868-872, 874-881).
Migration1 ==
    << [k |-> "user_version", v |-> 1],
       [k |-> "create_table", name |-> "feeds"],
       [k |-> "create_table", name |-> "entries"],
       [k |-> "create_index", tbl |-> "entries",
        name |-> "entries_feed_id_and_pub_date_and_inserted_at_index"] >>
Migration2 ==
    << [k |-> "user_version", v |-> 2],
       [k |-> "add_column", tbl |-> "feeds", col |-> "feeds.latest_etag"] >>
Migration3 ==
    << [k |-> "user_version", v |-> 3],
       [k |-> "unique_index", name |-> "feeds_feed_link"] >>

\* the body with each migration run only from the version just below it
initialize_db_body_from_previous_only(schema_version) ==
    << [k |-> "query_user_version"] >>
    \o (IF schema_version = 0 THEN Migration1 ELSE <<>>)
    \o (IF schema_version = 1 THEN Migration2 ELSE <<>>)
    \o (IF schema_version = 2 THEN Migration3 ELSE <<>>)

\* The closure of initialize_db, rss.rs:824-883: the stored version is read
\* once, and the three conditions test the version that was read.
initialize_db_body(schema_version) ==
    << [k |-> "query_user_version"] >>
    \o (IF schema_version = 0 THEN Migration1 ELSE <<>>)
    \o (IF schema_version <= 1 THEN Migration2 ELSE <<>>)
    \o (IF schema_version <= 2 THEN Migration3 ELSE <<>>)

\* rss.rs:823-885
initialize_db(d, fault, t) ==
    LET tx == in_transaction(d, initialize_db_body(d.user_version), fault, t)
    IN  IF tx.ok THEN Ok(tx.db) ELSE Err("db", tx.db)

\* initialize_db as a release of the program had it when `last` was the
\* newest migration: the databases the later migrations are there for
initialize_db_of_release(d, last, fault, t) ==
    LET body == << [k |-> "query_user_version"] >>
                \o (IF d.user_version = 0 THEN Migration1 ELSE <<>>)
                \o (IF d.user_version <= 1 /\ last >= 2 THEN Migration2 ELSE <<>>)
                \o (IF d.user_version <= 2 /\ last >= 3 THEN Migration3 ELSE <<>>)
        tx == in_transaction(d, body, fault, t)
    IN  IF tx.ok THEN Ok(tx.db) ELSE Err("db", tx.db)

\* subscribe_to_feed accepting a cache hit as a success
subscribe_to_feed_hit_ok(d, url, resp, fault, t) ==
    LET fetched == fetch_feed(url, None, resp)
    IN  CASE fetched.r = "err" -> Err(fetched.why, d)
          [] fetched.r = "hit" -> Ok(d)
          [] fetched.r = "miss" ->
              LET tx == in_transaction(d, subscribe_body(d, fetched), fault, t)
              IN  IF tx.ok THEN Ok(tx.db) ELSE Err("db", tx.db)

\* rss.rs:609-641
subscribe_to_feed(d, url, resp, fault, t) ==
    LET fetched == fetch_feed(url, None, resp)
    IN  CASE fetched.r = "err" -> Err(fetched.why, d)
          [] fetched.r = "hit" -> Err("logic", d)
          [] fetched.r = "miss" ->
              LET tx == in_transaction(d, subscribe_body(d, fetched), fault, t)
              IN  IF tx.ok THEN Ok(tx.db) ELSE Err("db", tx.db)

\* refresh_feed writing statement by statement, outside a transaction
refresh_feed_no_tx(d, feed_id, resp, fault, t) ==
    LET feed_url == get_feed_url(d, feed_id)
        current_etag == get_feed_latest_etag(d, feed_id)
    IN  IF ~feed_url.ok \/ ~current_etag.ok
        THEN Err("lookup", d)
        ELSE
        LET remote_feed == fetch_feed(feed_url.url, current_etag.etag, resp)
        IN  IF remote_feed.r = "err"
            THEN Err(remote_feed.why, d)
            ELSE
            LET stmts == IF remote_feed.r = "miss"
                         THEN refresh_miss_body(d, feed_id, remote_feed)
                         ELSE refresh_hit_body(feed_id)
                r == Run(d, stmts, fault, t)
            IN  IF r.ok THEN Ok(r.db) ELSE Err("db", r.db)

\* the request a refresh of the feed sends (rss.rs:769-777, 696-702): the
\* stored URL, and If-None-Match with the stored ETag when there is one
refresh_request(d, feed_id) ==
    [url |-> get_feed_url(d, feed_id).url,
     if_none_match |-> fetch_feed(get_feed_url(d, feed_id).url,
                                  get_feed_latest_etag(d, feed_id).etag,
                                  [kind |-> "transport"]).sent]

\* rss.rs:764-821
refresh_feed(d, feed_id, resp, fault, t) ==
    LET feed_url == get_feed_url(d, feed_id)
        current_etag == get_feed_latest_etag(d, feed_id)
    IN  IF ~feed_url.ok \/ ~current_etag.ok
        THEN Err("lookup", d)
        ELSE
        LET remote_feed == fetch_feed(feed_url.url, current_etag.etag, resp)
        IN  IF remote_feed.r = "err"
            THEN Err(remote_feed.why, d)
            ELSE
            LET stmts == IF remote_feed.r = "miss"
                         THEN refresh_miss_body(d, feed_id, remote_feed)
                         ELSE refresh_hit_body(feed_id)
                tx == in_transaction(d, stmts, fault, t)
            IN  IF tx.ok THEN Ok(tx.db) ELSE Err("db", tx.db)

\* delete_feed running its two DELETEs outside a transaction
delete_feed_no_tx(d, feed_id, fault, t) ==
    LET r == Run(d, delete_feed_body(feed_id), fault, t)
    IN  IF r.ok THEN Ok(r.db) ELSE Err("db", r.db)

\* rss.rs:899-905
delete_feed(d, feed_id, fault, t) ==
    LET tx == in_transaction(d, delete_feed_body(feed_id), fault, t)
    IN  IF tx.ok THEN Ok(tx.db) ELSE Err("db", tx.db)

\* rss.rs:988-1000
update_feed_title(d, feed_id, new_title, fault, t) ==
    LET tx == in_transaction(d, update_feed_title_body(feed_id, new_title), fault, t)
    IN  IF tx.ok THEN Ok(tx.db) ELSE Err("db", tx.db)

\* rss.rs:1069-1077
count_unread_entries(d, feed_id) ==
    Cardinality({ e \in d.entries : e.feed_id = feed_id /\ e.read_at = None })

\* rss.rs:249-253
mark_as_read(d, self, fault, t) ==
    LET r == set_read_at(d, self.id, Some(t))
    IN  IF r.ok /\ fault = 0 THEN Ok(r.db) ELSE Err("db", d)

\* rss.rs:255-259
mark_as_unread(d, self, fault, t) ==
    LET r == set_read_at(d, self.id, None)
    IN  IF r.ok /\ fault = 0 THEN Ok(r.db) ELSE Err("db", d)

\* the toggle that also stamps the row with the time of the toggle
toggle_read_restamping(d, self, fault, t) ==
    LET r == IF self.read_at = None
             THEN set_read_at(d, self.id, Some(t))
             ELSE set_read_at(d, self.id, None)
        stamped == [r.db EXCEPT !.entries =
                      { IF e.id = self.id THEN [e EXCEPT !.inserted_at = t] ELSE e
                        : e \in @ }]
    IN  IF r.ok /\ fault = 0 THEN Ok(stamped) ELSE Err("db", d)
\* rss.rs:240-260, called on an EntryMetadata value loaded earlier; the
\* single UPDATE runs outside any transaction
toggle_read(d, self, fault, t) ==
    LET r == IF self.read_at = None
             THEN set_read_at(d, self.id, Some(t))
             ELSE set_read_at(d, self.id, None)
    IN  IF r.ok /\ fault = 0 THEN Ok(r.db) ELSE Err("db", d)

(***************************************************************************)
(* The streaming parser, rss.rs:271-521.  A string is a sequence of        *)
(* tokens: the delimiters ":", "{" and "}" are tokens of their own, every  *)
(* other token stands for a run of characters without a delimiter.  A      *)
(* document is what the quick-xml reader makes of the bytes: a sequence of *)
(* events.                                                                 *)
(***************************************************************************)
Min(S) == CHOOSE x \in S : \A y \in S : x <= y

\* rss.rs:272-279
local_name(name) ==
    LET colons == { i \in 1..Len(name) : name[i] = ":" }
        braces == { i \in 1..Len(name) : name[i] = "}" }
    IN  IF braces # {} /\ Min(braces) < Len(name)
        THEN SubSeq(name, Min(braces) + 1, Len(name))
        ELSE IF colons # {}
        THEN SubSeq(name, Min(colons) + 1, Len(name))
        ELSE name

\* the three ways a document writes the element name l
Bare(l) == <<l>>
Prefixed(p, l) == <<p, ":", l>>
Clark(l) == <<"{", "http", ":", "//ns", "}", l>>

\* the events of the reader
StartTag(name, attrs) == [t |-> "Start", name |-> name, attrs |-> attrs]
EmptyTag(name, attrs) == [t |-> "Empty", name |-> name, attrs |-> attrs]
EndTag(name) == [t |-> "End", name |-> name]
Text(s) == [t |-> "Text", text |-> s]
CData(s) == [t |-> "CData", text |-> s]
\* a comment, declaration, processing instruction or doctype
OtherEvent == [t |-> "Other"]
\* the reader fails on the bytes that follow
SyntaxError == [t |-> "Error"]

Attr(key, value) == [key |-> key, value |-> value]

\* rss.rs:352-367 and 383-397: the attribute named href, else the first
\* attribute whose local name is href; the value is taken as written
Href(attrs) ==
    LET exact == { i \in 1..Len(attrs) : attrs[i].key = <<"href">> }
        local == { i \in 1..Len(attrs) : local_name(attrs[i].key) = <<"href">> }
    IN  IF exact # {} THEN Some(attrs[Min(exact)].value)
        ELSE IF local # {} THEN Some(attrs[Min(local)].value)
        ELSE None

\* the entities the XML unescape does not know
UnknownEntities == {"&nbsp;"}

\* the character an entity token stands for
Entity(tok) == IF tok = "&amp;" THEN "&" ELSE tok

\* BytesText::unescape, rss.rs:405: None when the text holds an entity that
\* is not defined
unescape(s) ==
    IF \E i \in 1..Len(s) : s[i] \in UnknownEntities
    THEN None
    ELSE Some([i \in 1..Len(s) |-> Entity(s[i])])

\* decode_html_entities_to_string
decode_html_entities(s) ==
    [i \in 1..Len(s) |-> IF s[i] = "&nbsp;" THEN " " ELSE Entity(s[i])]

\* parse_datetime, rss.rs:267-269: the texts that are dates, as days
parse_datetime(s) ==
    IF s = <<"day0">> THEN Some(0)
    ELSE IF s = <<"day1">> THEN Some(1)
    ELSE None

\* the IncomingEntry the parser starts an item or entry with
BlankEntry ==
    [title |-> None, author |-> None, pub_date |-> None,
     description |-> None, content |-> None, link |-> None]

\* the locals of parse_feed_streaming before the first event, rss.rs:292-313
InitialParse ==
    [feed_type |-> None, feed_title |-> None, feed_link |-> None,
     entries |-> <<>>, in_item |-> FALSE, in_entry |-> FALSE,
     current_entry |-> BlankEntry, current_text |-> <<>>,
     current_link_href |-> None]

\* the feed type with every feed, rss or RDF tag deciding anew
detect_feed_type_last_wins(feed_type, name) ==
    CASE name = <<"feed">> -> Some("Atom")
      [] name \in { <<"rss">>, <<"RDF">> } -> Some("RSS")
      [] OTHER -> feed_type

\* rss.rs:318-325
detect_feed_type(feed_type, name) ==
    IF feed_type = None
    THEN CASE name = <<"feed">> -> Some("Atom")
           [] name \in { <<"rss">>, <<"RDF">> } -> Some("RSS")
           [] OTHER -> feed_type
    ELSE feed_type

\* the names of rss.rs:370-371 and 487
DateTags == { <<"pubDate">>, <<"published">>, <<"updated">>, <<"dc", ":", "date">> }
ScalarTags ==
    { <<"title">>, <<"description">>, <<"content">>, <<"summary">>,
      <<"author">>, <<"name">> } \cup DateTags

\* Event::Start, rss.rs:315-376
OnStart(st, e) ==
    LET name == local_name(e.name)
        s1 == [st EXCEPT !.feed_type = detect_feed_type(st.feed_type, name)]
    IN  CASE name = <<"item">> ->
                [s1 EXCEPT !.in_item = TRUE, !.current_entry = BlankEntry]
          [] name = <<"entry">> ->
                [s1 EXCEPT !.in_entry = TRUE, !.current_entry = BlankEntry]
          [] name = <<"link">> ->
                [s1 EXCEPT !.current_link_href = Href(e.attrs),
                           !.current_text = <<>>]
          [] name \in ScalarTags -> [s1 EXCEPT !.current_text = <<>>]
          [] OTHER -> s1

\* Event::Empty, rss.rs:377-403
OnEmpty(st, e) ==
    LET name == local_name(e.name)
        href == Href(e.attrs)
    IN  IF name = <<"link">> /\ href # None
        THEN IF st.in_item \/ st.in_entry
             THEN [st EXCEPT !.current_entry.link = href]
             ELSE IF st.feed_link = None
             THEN [st EXCEPT !.feed_link = href]
             ELSE st
        ELSE st

\* Event::Text, rss.rs:404-407: a text that cannot be unescaped counts as empty
OnText(st, e) ==
    LET text == IF unescape(e.text) = None THEN <<>> ELSE unescape(e.text)[1]
    IN  [st EXCEPT !.current_text = @ \o text]

\* Event::CData, rss.rs:408-411
OnCData(st, e) == [st EXCEPT !.current_text = @ \o e.text]

\* the summary arm taking the summary whether or not the entry has content
end_of_summary_overwriting(st) ==
    IF st.in_entry /\ st.current_text # <<>>
    THEN [st EXCEPT !.current_text = <<>>,
                    !.current_entry.content = Some(decode_html_entities(st.current_text))]
    ELSE [st EXCEPT !.current_text = <<>>]

\* the end tag of a summary element, rss.rs:469-476
end_of_summary(st) ==
    IF st.in_entry /\ st.current_entry.content = None /\ st.current_text # <<>>
    THEN [st EXCEPT !.current_text = <<>>,
                    !.current_entry.content = Some(decode_html_entities(st.current_text))]
    ELSE [st EXCEPT !.current_text = <<>>]

\* Event::End, rss.rs:412-500
OnEnd(st, e) ==
    LET name == local_name(e.name)
        text == st.current_text
        inside == st.in_item \/ st.in_entry
        decoded == Some(decode_html_entities(text))
        cleared == [st EXCEPT !.current_text = <<>>]
    IN  CASE name = <<"item">> ->
                IF st.in_item
                THEN [st EXCEPT !.entries = Append(@, st.current_entry),
                                !.in_item = FALSE]
                ELSE st
          [] name = <<"entry">> ->
                IF st.in_entry
                THEN [st EXCEPT !.entries = Append(@, st.current_entry),
                                !.in_entry = FALSE]
                ELSE st
          [] name = <<"title">> ->
                IF text = <<>> THEN cleared
                ELSE IF inside
                THEN [cleared EXCEPT !.current_entry.title = decoded]
                ELSE IF st.feed_title = None
                THEN [cleared EXCEPT !.feed_title = decoded]
                ELSE cleared
          [] name = <<"link">> ->
                IF inside
                THEN IF st.current_link_href # None
                     THEN [cleared EXCEPT !.current_entry.link = st.current_link_href,
                                          !.current_link_href = None]
                     ELSE IF text # <<>>
                     THEN [cleared EXCEPT !.current_entry.link = Some(text)]
                     ELSE cleared
                ELSE IF st.feed_link = None /\ text # <<>>
                THEN [cleared EXCEPT !.feed_link = Some(text)]
                ELSE cleared
          [] name = <<"description">> ->
                IF st.in_item /\ text # <<>>
                THEN [cleared EXCEPT !.current_entry.description = decoded]
                ELSE cleared
          [] name = <<"content">> ->
                IF inside /\ text # <<>>
                THEN [cleared EXCEPT !.current_entry.content = decoded]
                ELSE cleared
          [] name = <<"summary">> -> end_of_summary(st)
          [] name \in { <<"author">>, <<"name">> } ->
                IF inside /\ st.current_entry.author = None /\ text # <<>>
                THEN [cleared EXCEPT !.current_entry.author = decoded]
                ELSE cleared
          [] name \in DateTags ->
                IF inside /\ st.current_entry.pub_date = None /\ text # <<>>
                THEN [cleared EXCEPT !.current_entry.pub_date = parse_datetime(text)]
                ELSE cleared
          [] OTHER -> cleared

\* one turn of the loop of rss.rs:314-507 on an event the reader delivered
OnEvent(st, e) ==
    CASE e.t = "Start" -> OnStart(st, e)
      [] e.t = "Empty" -> OnEmpty(st, e)
      [] e.t = "Text"  -> OnText(st, e)
      [] e.t = "CData" -> OnCData(st, e)
      [] e.t = "End"   -> OnEnd(st, e)
      [] OTHER         -> st

\* A document: whether its bytes are valid UTF-8, and the events the reader
\* makes of them.
Document(events) == [utf8 |-> TRUE, events |-> events]

\* the parser before it is handed a document
IdleParser ==
    [input |-> Document(<<>>), pos |-> 0, open |-> <<>>, st |-> InitialParse,
     status |-> "idle", why |-> ""]

\* rss.rs:283-290: the body is read and decoded
OpenParser(doc) ==
    IF doc.utf8
    THEN [IdleParser EXCEPT !.input = doc, !.status = "reading"]
    ELSE [IdleParser EXCEPT !.input = doc, !.status = "err", !.why = "utf8"]

\* the end of the document taking a feed of unknown type for an RSS feed
FinishParser_defaulting(p) ==
    IF p.st.feed_type = None
    THEN [p EXCEPT !.status = "ok", !.st.feed_type = Some("RSS")]
    ELSE [p EXCEPT !.status = "ok"]

\* rss.rs:509: the end of the document
FinishParser(p) ==
    IF p.st.feed_type = None
    THEN [p EXCEPT !.status = "err", !.why = "could not determine feed type"]
    ELSE [p EXCEPT !.status = "ok"]

\* One read_event_into and the arm it selects.  The reader keeps the names
\* of the open elements and fails on an end tag that does not close the
\* innermost one.
ReadStep(p) ==
    IF p.pos = Len(p.input.events)
    THEN FinishParser(p)
    ELSE LET e == p.input.events[p.pos + 1]
         IN  IF e.t = "Error"
             THEN [p EXCEPT !.status = "err", !.why = "xml"]
             ELSE IF e.t = "End" /\ (p.open = <<>> \/ p.open[Len(p.open)] # e.name)
             THEN [p EXCEPT !.status = "err", !.why = "xml"]
             ELSE [p EXCEPT
                     !.pos = @ + 1,
                     !.open = CASE e.t = "Start" -> Append(@, e.name)
                                [] e.t = "End" -> SubSeq(@, 1, Len(@) - 1)
                                [] OTHER -> @,
                     !.st = OnEvent(@, e)]

RECURSIVE RunParser(_)
RunParser(p) == IF p.status = "reading" THEN RunParser(ReadStep(p)) ELSE p

\* rss.rs:282-521: Err, or the feed-level fields and the entries
parse_feed_streaming(doc, url) ==
    LET p == RunParser(OpenParser(doc))
    IN  IF p.status = "ok"
        THEN [ok |-> TRUE,
              feed |-> [title |-> p.st.feed_title, feed_link |-> Some(url),
                        link |-> p.st.feed_link, feed_kind |-> p.st.feed_type[1],
                        latest_etag |-> None],
              entries |-> p.st.entries]
        ELSE [ok |-> FALSE, why |-> p.why]

(***************************************************************************)
(* The URL normalizer, rss.rs:581-607.  A string is the sequence of its    *)
(* tokens: the blank, the delimiters ":", "/" and "@", names (letters and  *)
(* dots, which can stand as scheme, host, user or path segment) and        *)
(* numbers.  Url::parse and Url::to_string are those of the url crate, on  *)
(* strings without "?", "#", "\", "[" and dot segments.                    *)
(***************************************************************************)
Names == { "https", "http", "HTTP", "ftp", "mailto", "example.com", "Example.COM",
           "feed", "r", "x", "a" }
Numbers == { "443", "8080" }

\* ASCII lower case, of schemes and hosts
to_lowercase(tok) ==
    CASE tok = "HTTP" -> "http"
      [] tok = "Example.COM" -> "example.com"
      [] OTHER -> tok

\* str::trim
RECURSIVE trim_start(_)
trim_start(s) == IF s # <<>> /\ Head(s) = " " THEN trim_start(Tail(s)) ELSE s
RECURSIVE trim_end(_)
trim_end(s) ==
    IF s # <<>> /\ s[Len(s)] = " " THEN trim_end(SubSeq(s, 1, Len(s) - 1)) ELSE s
\* no trimming at all
trim_nothing(s) == s
trim(s) == trim_end(trim_start(s))

\* trimmed.contains("://")
contains_scheme_separator(s) ==
    \E i \in 1..(Len(s) - 2) : s[i] = ":" /\ s[i + 1] = "/" /\ s[i + 2] = "/"

Positions(s, tok) == { i \in 1..Len(s) : s[i] = tok }
Max(S) == CHOOSE x \in S : \A y \in S : y <= x

special_schemes == { "http", "https", "ftp" }
default_port(scheme) ==
    CASE scheme = "http" -> "80" [] scheme = "https" -> "443" [] scheme = "ftp" -> "21"
      [] OTHER -> ""

RECURSIVE skip_slashes(_)
skip_slashes(s) == IF s # <<>> /\ Head(s) = "/" THEN skip_slashes(Tail(s)) ELSE s

\* The authority and the path that follow the slashes: the authority ends
\* at the next "/"; the user information ends at the last "@" of the
\* authority and its password starts at the first ":"; the host is what
\* stands before the ":" of the port and is lowercased for a special scheme,
\* where it cannot be empty; the port is a number or nothing, and a port
\* that is the default of the scheme is dropped; a blank of the path is
\* percent-encoded.
after_double_slash(scheme, s) ==
    LET slash == Positions(s, "/")
        authority == IF slash = {} THEN s ELSE SubSeq(s, 1, Min(slash) - 1)
        path == IF slash = {} THEN <<>> ELSE SubSeq(s, Min(slash), Len(s))
        at == Positions(authority, "@")
        userinfo == IF at = {} THEN <<>> ELSE SubSeq(authority, 1, Max(at) - 1)
        hostport == IF at = {} THEN authority
                    ELSE SubSeq(authority, Max(at) + 1, Len(authority))
        colon == Positions(hostport, ":")
        host == IF colon = {} THEN hostport ELSE SubSeq(hostport, 1, Min(colon) - 1)
        port == IF colon = {} THEN <<>>
                ELSE SubSeq(hostport, Min(colon) + 1, Len(hostport))
        ucolon == Positions(userinfo, ":")
        username == IF ucolon = {} THEN userinfo
                    ELSE SubSeq(userinfo, 1, Min(ucolon) - 1)
        password == IF ucolon = {} THEN <<>>
                    ELSE SubSeq(userinfo, Min(ucolon) + 1, Len(userinfo))
        special == scheme \in special_schemes
    IN  IF host = <<>> /\ special
        THEN [ok |-> FALSE, why |-> "empty host"]
        ELSE IF ~(host = <<>> \/ (Len(host) = 1 /\ host[1] \in Names))
        THEN [ok |-> FALSE, why |-> "invalid domain character"]
        ELSE IF ~(port = <<>> \/ (Len(port) = 1 /\ port[1] \in Numbers))
        THEN [ok |-> FALSE, why |-> "invalid port number"]
        ELSE [ok |-> TRUE,
              scheme |-> scheme,
              username |-> username,
              password |-> password,
              host |-> IF special THEN <<to_lowercase(host[1])>> ELSE host,
              port |-> IF port # <<>> /\ port[1] = default_port(scheme)
                       THEN <<>> ELSE port,
              path |-> IF path = <<>> /\ special THEN <<"/">>
                       ELSE [i \in 1..Len(path) |->
                                IF path[i] = " " THEN "%20" ELSE path[i]],
              opaque |-> FALSE]

\* Url::parse without a base: blanks at both ends are dropped; the scheme
\* is the name before the first ":", lowercased; a special scheme takes any
\* number of slashes before its authority; another scheme has an authority
\* after "//" and is an opaque path otherwise
Url_parse(input) ==
    LET s == trim(input)
    IN
    IF ~(Len(s) >= 2 /\ s[1] \in Names /\ s[2] = ":")
    THEN [ok |-> FALSE, why |-> "relative URL without a base"]
    ELSE LET scheme == to_lowercase(s[1])
             rest == SubSeq(s, 3, Len(s))
         IN  IF scheme \in special_schemes
             THEN after_double_slash(scheme, skip_slashes(rest))
             ELSE IF Len(rest) >= 2 /\ rest[1] = "/" /\ rest[2] = "/"
             THEN after_double_slash(scheme, SubSeq(rest, 3, Len(rest)))
             ELSE [ok |-> TRUE, scheme |-> scheme, opaque |-> TRUE, path |-> rest]

\* Url::to_string: the serialization
Url_to_string(u) ==
    IF u.opaque
    THEN <<u.scheme, ":">> \o u.path
    ELSE <<u.scheme, ":", "/", "/">>
         \o (IF u.username = <<>> /\ u.password = <<>> THEN <<>>
             ELSE u.username
                  \o (IF u.password = <<>> THEN <<>> ELSE <<":">> \o u.password)
                  \o <<"@">>)
         \o u.host
         \o (IF u.port = <<>> THEN <<>> ELSE <<":">> \o u.port)
         \o u.path

\* the defaulting with http as the assumed scheme
with_default_scheme_http(trimmed) ==
    IF ~contains_scheme_separator(trimmed)
    THEN <<"http", ":", "/", "/">> \o trimmed
    ELSE trimmed
\* rss.rs:588-593: if no scheme, assume https
with_default_scheme(trimmed) ==
    IF ~contains_scheme_separator(trimmed)
    THEN <<"https", ":", "/", "/">> \o trimmed
    ELSE trimmed

\* the normalizer with every scheme accepted
validate_and_normalize_feed_url_any_scheme(raw) ==
    LET trimmed == trim(raw)
        candidate == with_default_scheme(trimmed)
        url == Url_parse(candidate)
    IN  IF trimmed = <<>>
        THEN [ok |-> FALSE, why |-> "feed url cannot be empty"]
        ELSE IF ~url.ok
        THEN [ok |-> FALSE, why |-> "invalid feed url"]
        ELSE [ok |-> TRUE, url |-> Url_to_string(url)]

\* rss.rs:581-607
validate_and_normalize_feed_url(raw) ==
    LET trimmed == trim(raw)
        candidate == with_default_scheme(trimmed)
        url == Url_parse(candidate)
    IN  IF trimmed = <<>>
        THEN [ok |-> FALSE, why |-> "feed url cannot be empty"]
        ELSE IF ~url.ok
        THEN [ok |-> FALSE, why |-> "invalid feed url"]
        ELSE IF url.scheme \in { "http", "https" }
        THEN [ok |-> TRUE, url |-> Url_to_string(url)]
        ELSE [ok |-> FALSE, why |-> "unsupported url scheme"]

(***************************************************************************)
(* StatefulList, util.rs:29-78: the items and the selected index of the    *)
(* ListState.  Indices are usize; `len() - 1` on an empty list overflows,  *)
(* which panics in a build with overflow checks and wraps in one without.  *)
(***************************************************************************)
\* stands for usize::MAX
UsizeMax == 2147483647

\* util.rs:36-41
with_items(items) == [selected |-> None, items |-> items, panicked |-> FALSE]

\* self.items.len() - 1: the value, or a panic where `checks` is on
len_minus_one(l, checks) ==
    IF Len(l.items) > 0 THEN [panic |-> FALSE, v |-> Len(l.items) - 1]
    ELSE IF checks THEN [panic |-> TRUE, v |-> 0]
    ELSE [panic |-> FALSE, v |-> UsizeMax]

\* util.rs:43-55
list_next(l, checks) ==
    IF l.selected = None THEN [l EXCEPT !.selected = Some(0)]
    ELSE LET last == len_minus_one(l, checks)
         IN  IF last.panic THEN [l EXCEPT !.panicked = TRUE]
             ELSE IF l.selected[1] >= last.v
             THEN [l EXCEPT !.selected = Some(0)]
             ELSE [l EXCEPT !.selected = Some(l.selected[1] + 1)]

\* util.rs:57-69
list_previous(l, checks) ==
    IF l.selected = None THEN [l EXCEPT !.selected = Some(0)]
    ELSE IF l.selected[1] = 0
    THEN LET last == len_minus_one(l, checks)
         IN  IF last.panic THEN [l EXCEPT !.panicked = TRUE]
             ELSE [l EXCEPT !.selected = Some(last.v)]
    ELSE [l EXCEPT !.selected = Some(l.selected[1] - 1)]

\* util.rs:71-73
list_reset(l) == [l EXCEPT !.selected = Some(0)]

\* util.rs:75-77
list_unselect(l) == [l EXCEPT !.selected = None]

(***************************************************************************)
(* State machine.                                                          *)
(***************************************************************************)
\* no URL entered yet
NoUrl == [raw |-> <<>>, entered |-> FALSE]

EmptyDb ==
    [feeds |-> {}, entries |-> {}, seq_feeds |-> 0, seq_entries |-> 0,
     user_version |-> 0, schema |-> {}]

Init ==
    /\ db = EmptyDb
    /\ now = 0
    /\ held = None
    /\ parser = IdleParser
    /\ entered_url = NoUrl
    /\ list = with_items(<<>>)

\* the sequences stay within the bounds of the model
InBounds(d) == d.seq_feeds <= MaxFeedId /\ d.seq_entries <= MaxEntryId

InitializeDb(fault) ==
    /\ db' = initialize_db(db, fault, now).db
    /\ UNCHANGED <<now, held, parser, entered_url, list>>

\* an earlier release of the program opens the database
OlderRelease(last, fault) ==
    /\ db' = initialize_db_of_release(db, last, fault, now).db
    /\ UNCHANGED <<now, held, parser, entered_url, list>>

Subscribe(url, resp, fault) ==
    /\ db' = subscribe_to_feed(db, url, resp, fault, now).db
    /\ InBounds(db')
    /\ UNCHANGED <<now, held, parser, entered_url, list>>

Refresh(feed_id, resp, fault) ==
    /\ db' = refresh_feed(db, feed_id, resp, fault, now).db
    /\ InBounds(db')
    /\ UNCHANGED <<now, held, parser, entered_url, list>>

DeleteFeed(feed_id, fault) ==
    /\ db' = delete_feed(db, feed_id, fault, now).db
    /\ UNCHANGED <<now, held, parser, entered_url, list>>

UpdateFeedTitle(feed_id, new_title, fault) ==
    /\ db' = update_feed_title(db, feed_id, new_title, fault, now).db
    /\ UNCHANGED <<now, held, parser, entered_url, list>>

\* rss.rs:1119-1149: the caller loads the metadata of one entry and keeps it
GetEntryMeta(entry_id) ==
    /\ db.user_version # 0
    /\ \E e \in get_entry_meta_rows(db, entry_id) : held' = Some(e)
    /\ UNCHANGED <<db, now, parser, entered_url, list>>

ToggleRead(fault) ==
    /\ held # None
    /\ db' = toggle_read(db, held[1], fault, now).db
    /\ UNCHANGED <<now, held, parser, entered_url, list>>

\* the wall clock moves on by a day more than the retention window
Tick ==
    /\ now < MaxTicks * (ENTRY_RETENTION_DAYS + 1)
    /\ now' = now + ENTRY_RETENTION_DAYS + 1
    /\ UNCHANGED <<db, held, parser, entered_url, list>>

\* the wall clock moves on by a day
TickDay ==
    /\ now < MaxTicks
    /\ now' = now + 1
    /\ UNCHANGED <<db, held, parser, entered_url, list>>

\* the responses without an ETag whose document has at most the undated item
ShortResponses ==
    { r \in Responses :
        (r.kind = "http" /\ r.status = 200 /\ r.body.ok) =>
            (r.etag = None /\ r.body.entries \in { <<>>, <<Undated>> }) }

\* One feed URL: every document, the clock, read toggles, storage failures.
Next ==
    \/ \E fault \in FaultPoints : InitializeDb(fault)
    \/ \E resp \in Responses, fault \in FaultPoints : Subscribe("u1", resp, fault)
    \/ \E feed_id \in 1..MaxFeedId, resp \in Responses, fault \in FaultPoints :
          Refresh(feed_id, resp, fault)
    \/ \E entry_id \in 1..MaxEntryId : GetEntryMeta(entry_id)
    \/ \E fault \in 0..1 : ToggleRead(fault)
    \/ Tick

Spec == Init /\ [][Next]_vars

\* Two feed URLs, short documents: subscribe, refresh, rename, delete and
\* read toggles in any order.
NextFeeds ==
    \/ \E fault \in FaultPoints : InitializeDb(fault)
    \/ \E url \in Urls, resp \in ShortResponses, fault \in FaultPoints :
          Subscribe(url, resp, fault)
    \/ \E feed_id \in 1..MaxFeedId, resp \in ShortResponses, fault \in FaultPoints :
          Refresh(feed_id, resp, fault)
    \/ \E feed_id \in 1..MaxFeedId, fault \in FaultPoints : DeleteFeed(feed_id, fault)
    \/ \E feed_id \in 1..MaxFeedId, t \in NewTitles, fault \in FaultPoints :
          UpdateFeedTitle(feed_id, t, fault)
    \/ \E entry_id \in 1..MaxEntryId : GetEntryMeta(entry_id)
    \/ \E fault \in 0..1 : ToggleRead(fault)

SpecFeeds == Init /\ [][NextFeeds]_vars

\* Two feed URLs, short documents, no rename: subscribe, refresh (with a
\* storage failure at its first statement or none), delete and read toggles.
NextFrame ==
    \/ \E fault \in FaultPoints : InitializeDb(fault)
    \/ \E url \in Urls, resp \in ShortResponses : Subscribe(url, resp, 0)
    \/ \E feed_id \in 1..MaxFeedId, resp \in ShortResponses, fault \in 0..1 :
          Refresh(feed_id, resp, fault)
    \/ \E feed_id \in 1..MaxFeedId : DeleteFeed(feed_id, 0)
    \/ \E entry_id \in 1..MaxEntryId : GetEntryMeta(entry_id)
    \/ ToggleRead(0)

SpecFrame == Init /\ [][NextFrame]_vars

\* One feed URL over the retention documents: subscribe, refresh, read
\* toggles and the clock.
NextRetention ==
    \/ \E fault \in FaultPoints : InitializeDb(fault)
    \/ \E resp \in RetentionResponses, fault \in FaultPoints :
          Subscribe("u1", resp, fault)
    \/ \E feed_id \in 1..MaxFeedId, resp \in RetentionResponses, fault \in FaultPoints :
          Refresh(feed_id, resp, fault)
    \/ \E entry_id \in 1..MaxEntryId : GetEntryMeta(entry_id)
    \/ \E fault \in 0..1 : ToggleRead(fault)
    \/ Tick

SpecRetention == Init /\ [][NextRetention]_vars

\* the header lists of the 200 responses: no ETag, and an ETag under
\* three spellings of the header name
HeaderLists ==
    { <<>>,
      <<Header("ETag", "e1")>>,
      <<Header("etag", "e2")>>,
      <<Header("Content-Type", "xml"), Header("ETAG", "e1")>> }

\* a transport failure, a 304, and the short documents under every header
\* list
ETagResponses ==
    { [kind |-> "transport"] } \cup
    { [kind |-> "http", status |-> 304, etag |-> None] } \cup
    { [kind |-> "http", status |-> 200, headers |-> h,
       body |-> [ok |-> TRUE, feed |-> m, entries |-> d]] :
          h \in HeaderLists, m \in IncomingFeedMetas, d \in { <<>>, <<Undated>> } }

\* Feeds served with changing ETags: subscribe, refresh and delete.
NextETag ==
    \/ \E fault \in FaultPoints : InitializeDb(fault)
    \/ \E url \in Urls, resp \in ETagResponses : Subscribe(url, resp, 0)
    \/ \E feed_id \in 1..MaxFeedId, resp \in ETagResponses, fault \in 0..1 :
          Refresh(feed_id, resp, fault)
    \/ \E feed_id \in 1..MaxFeedId : DeleteFeed(feed_id, 0)

SpecETag == Init /\ [][NextETag]_vars

\* Items of four different links, two of them without a date.
Unstamped == [title |-> Some("t3"), pub_date |-> None,    link |-> Some("c")]
DayTwo    == [title |-> Some("t4"), pub_date |-> Some(2), link |-> Some("d")]
ListDocs == { <<Undated>>, <<DayOne>>, <<Unstamped>>, <<DayTwo>> }
ListResponses ==
    { [kind |-> "http", status |-> 200, etag |-> None,
       body |-> [ok |-> TRUE, feed |-> OtherFeedMeta, entries |-> d]] : d \in ListDocs }

\* One feed that takes up items day after day, and read toggles.
NextList ==
    \/ \E fault \in FaultPoints : InitializeDb(fault)
    \/ \E resp \in ListResponses : Subscribe("u1", resp, 0)
    \/ \E resp \in ListResponses, fault \in 0..1 : Refresh(1, resp, fault)
    \/ \E entry_id \in 1..MaxEntryId : GetEntryMeta(entry_id)
    \/ ToggleRead(0)
    \/ TickDay

SpecList == Init /\ [][NextList]_vars

\* the 304 and the one-item retention documents without an ETag
PruneResponses ==
    { r \in RetentionResponses :
        /\ r.kind = "http"
        /\ r.status = 200 => (r.etag = None /\ Len(r.body.entries) = 1) }

\* Two feed URLs, one-item documents: subscribe, refresh and the clock.
NextPrune ==
    \/ \E fault \in FaultPoints : InitializeDb(fault)
    \/ \E url \in Urls, resp \in PruneResponses, fault \in FaultPoints :
          Subscribe(url, resp, fault)
    \/ \E feed_id \in 1..MaxFeedId, resp \in PruneResponses, fault \in FaultPoints :
          Refresh(feed_id, resp, fault)
    \/ Tick

SpecPrune == Init /\ [][NextPrune]_vars

\* the parser is handed the body of a response
OpenDocument(doc) ==
    /\ parser.status = "idle"
    /\ parser' = OpenParser(doc)
    /\ UNCHANGED <<db, now, held, entered_url, list>>

\* the loop of the parser takes one turn
ReadEvent ==
    /\ parser.status = "reading"
    /\ parser' = ReadStep(parser)
    /\ UNCHANGED <<db, now, held, entered_url, list>>

\* the sequences of at most n events over an alphabet
EventSeqs(alphabet, n) == UNION { [1..k -> alphabet] : k \in 0..n }

\* the tags that bear on the feed kind: feed and rss written bare, with a
\* default namespace, with a prefix and in Clark notation, RDF, a
\* self-closing feed and an element of another name
KindEvents ==
    { StartTag(Bare("feed"), <<>>),
      StartTag(Bare("feed"), <<Attr(<<"xmlns">>, <<"http", ":", "//ns">>)>>),
      StartTag(Prefixed("atom", "feed"), <<>>),
      StartTag(Clark("feed"), <<>>),
      StartTag(Bare("rss"), <<>>),
      StartTag(Clark("rss"), <<>>),
      StartTag(Prefixed("rdf", "RDF"), <<>>),
      StartTag(Bare("channel"), <<>>),
      EmptyTag(Bare("feed"), <<>>) }

KindDocs == { Document(s) : s \in EventSeqs(KindEvents, MaxEvents) }

\* The parser on every short sequence of feed, rss and RDF tags.
NextParseKind ==
    \/ \E doc \in KindDocs : OpenDocument(doc)
    \/ ReadEvent

SpecParseKind == Init /\ [][NextParseKind]_vars

Url1 == <<"http", ":", "//x/1">>
\* a URL with a query of two parameters, as the document has to write it and
\* as it reads
Url2Written == <<"http", ":", "//x/?a", "&amp;", "b">>
Url2 == <<"http", ":", "//x/?a", "&", "b">>

\* The entry and item elements of the documents: the events of each, and
\* the title and link the element has.
AtomSelfClosing ==
    [events |-> << StartTag(Bare("entry"), <<>>),
                   StartTag(Bare("title"), <<>>), Text(<<"E">>), EndTag(Bare("title")),
                   EmptyTag(Bare("link"), <<Attr(<<"href">>, Url1)>>),
                   EndTag(Bare("entry")) >>,
     title |-> Some(<<"E">>), link |-> Some(Url1)]
AtomQualified ==
    [events |-> << StartTag(Prefixed("atom", "entry"), <<>>),
                   StartTag(Prefixed("atom", "link"),
                            <<Attr(<<"rel">>, <<"alternate">>),
                              Attr(Prefixed("atom", "href"), Url1)>>),
                   EndTag(Prefixed("atom", "link")),
                   EndTag(Prefixed("atom", "entry")) >>,
     title |-> None, link |-> Some(Url1)]
AtomHrefAndText ==
    [events |-> << StartTag(Bare("entry"), <<>>),
                   StartTag(Bare("link"), <<Attr(<<"href">>, Url1)>>),
                   Text(<<"more">>),
                   EndTag(Bare("link")),
                   EndTag(Bare("entry")) >>,
     title |-> None, link |-> Some(Url1)]
RssItem ==
    [events |-> << StartTag(Bare("item"), <<>>),
                   StartTag(Bare("link"), <<>>), Text(Url2Written), EndTag(Bare("link")),
                   EndTag(Bare("item")) >>,
     title |-> None, link |-> Some(Url2)]
EntryWithoutLink ==
    [events |-> << StartTag(Bare("entry"), <<>>),
                   StartTag(Bare("title"), <<>>), Text(<<"E">>), EndTag(Bare("title")),
                   EndTag(Bare("entry")) >>,
     title |-> Some(<<"E">>), link |-> None]
AtomQueryHref ==
    [events |-> << StartTag(Bare("entry"), <<>>),
                   EmptyTag(Bare("link"), <<Attr(<<"href">>, Url2Written)>>),
                   EndTag(Bare("entry")) >>,
     title |-> None, link |-> Some(Url2)]

Elements ==
    { AtomSelfClosing, AtomQualified, AtomHrefAndText, RssItem,
      EntryWithoutLink, AtomQueryHref }

ElementSeqs == UNION { [1..k -> Elements] : k \in 0..MaxElements }

RECURSIVE EventsOf(_)
EventsOf(els) ==
    IF els = <<>> THEN <<>> ELSE Head(els).events \o EventsOf(Tail(els))

\* the document with the given root element around the given elements
FeedDocument(root, els) ==
    Document(<<StartTag(Bare(root), <<>>)>> \o EventsOf(els) \o <<EndTag(Bare(root))>>)

EntryDocs == { FeedDocument(root, els) : root \in {"feed", "rss"}, els \in ElementSeqs }

\* The parser on the documents of at most MaxElements entries and items.
NextParseEntries ==
    \/ \E doc \in EntryDocs : OpenDocument(doc)
    \/ ReadEvent

SpecParseEntries == Init /\ [][NextParseEntries]_vars

\* the document with every self-closing tag written as the start tag
\* immediately followed by its end tag
RECURSIVE Expanded(_)
Expanded(events) ==
    IF events = <<>> THEN <<>>
    ELSE LET e == Head(events)
         IN  (IF e.t = "Empty"
              THEN << StartTag(e.name, e.attrs), EndTag(e.name) >>
              ELSE << e >>) \o Expanded(Tail(events))

\* the self-closing tags of the names the parser handles, and the events
\* that put them at feed level or inside an entry, after a text or not
SelfClosingEvents ==
    { EmptyTag(Bare("item"), <<>>),
      EmptyTag(Bare("entry"), <<>>),
      EmptyTag(Bare("link"), <<Attr(<<"href">>, Url1)>>),
      EmptyTag(Bare("link"), <<>>),
      EmptyTag(Bare("title"), <<>>),
      StartTag(Bare("entry"), <<>>),
      EndTag(Bare("entry")),
      Text(<<"x">>) }

\* a self-closing root element, or a feed element around a short sequence
\* of events
SelfClosingDocs ==
    { Document(<<EmptyTag(root, <<>>)>>) :
          root \in { Bare("feed"), Bare("rss"), Prefixed("rdf", "RDF") } } \cup
    { Document(<<StartTag(Bare("feed"), <<>>)>> \o s \o <<EndTag(Bare("feed"))>>) :
          s \in EventSeqs(SelfClosingEvents, MaxEvents) }

\* The parser on the documents with self-closing tags.
NextParseEmpty ==
    \/ \E doc \in SelfClosingDocs : OpenDocument(doc)
    \/ ReadEvent

SpecParseEmpty == Init /\ [][NextParseEmpty]_vars

\* link elements with and without an href attribute and with and without
\* text, at feed level and inside an entry
LinkEvents ==
    { StartTag(Bare("link"), <<Attr(<<"href">>, Url1)>>),
      StartTag(Bare("link"), <<>>),
      Text(<<"t">>),
      EndTag(Bare("link")),
      StartTag(Bare("entry"), <<>>),
      EndTag(Bare("entry")) }

LinkDocs ==
    { Document(<<StartTag(Bare("feed"), <<>>)>> \o s \o <<EndTag(Bare("feed"))>>) :
          s \in EventSeqs(LinkEvents, MaxEvents) }

\* The parser on the documents of link elements.
NextParseLink ==
    \/ \E doc \in LinkDocs : OpenDocument(doc)
    \/ ReadEvent

SpecParseLink == Init /\ [][NextParseLink]_vars

\* another URL
Url3 == <<"http", ":", "//x/3">>

\* link elements of three spellings (self-closing with an href, start tag
\* with an href, text only) at feed level and inside an entry
SiteLinkEvents ==
    { EmptyTag(Bare("link"), <<Attr(<<"href">>, Url1)>>),
      EmptyTag(Bare("link"), <<Attr(<<"href">>, Url3)>>),
      StartTag(Bare("link"), <<Attr(<<"href">>, Url1)>>),
      StartTag(Bare("link"), <<>>),
      Text(<<"t">>),
      EndTag(Bare("link")),
      StartTag(Bare("entry"), <<>>),
      EndTag(Bare("entry")) }

SiteLinkDocs ==
    { Document(<<StartTag(Bare("feed"), <<>>)>> \o s \o <<EndTag(Bare("feed"))>>) :
          s \in EventSeqs(SiteLinkEvents, MaxEvents) }

\* The parser on the documents of feed-level and entry-level links.
NextParseSiteLink ==
    \/ \E doc \in SiteLinkDocs : OpenDocument(doc)
    \/ ReadEvent

SpecParseSiteLink == Init /\ [][NextParseSiteLink]_vars

\* the date tags as documents write them
WrittenDateTags ==
    { Bare("pubDate"), Bare("published"), Bare("updated"),
      Prefixed("atom", "updated"), Prefixed("dc", "date") }

\* the texts of a date element: two dates and a text that is no date
DateTexts == { <<"day0">>, <<"day1">>, <<"soon">> }

\* an item or entry whose only child is one date element
DateDocs ==
    { Document(<< StartTag(Bare(root), <<>>),
                  StartTag(Bare(el), <<>>),
                  StartTag(tag, <<>>), Text(text), EndTag(tag),
                  EndTag(Bare(el)),
                  EndTag(Bare(root)) >>) :
          root \in {"feed", "rss"}, el \in {"item", "entry"},
          tag \in WrittenDateTags, text \in DateTexts }

\* The parser on the documents of one dated item or entry.
NextParseDate ==
    \/ \E doc \in DateDocs : OpenDocument(doc)
    \/ ReadEvent

SpecParseDate == Init /\ [][NextParseDate]_vars

\* The children of an Atom entry that bear on its content: the events of
\* each, which tag it is and the text it has.
ContentChild(tag, text) ==
    [events |-> <<StartTag(Bare(tag), <<>>)>>
                \o (IF text = <<>> THEN <<>> ELSE <<Text(text)>>)
                \o <<EndTag(Bare(tag))>>,
     tag |-> tag, text |-> text]

ContentChildren ==
    { ContentChild("content", <<"c">>), ContentChild("content", <<>>),
      ContentChild("summary", <<"s">>), ContentChild("summary", <<>>),
      ContentChild("title", <<"E">>) }

ContentChildSeqs == UNION { [1..k -> ContentChildren] : k \in 0..MaxElements }

\* the Atom document of one entry with the given children
ContentDocument(children) ==
    Document(<< StartTag(Bare("feed"), <<>>), StartTag(Bare("entry"), <<>>) >>
             \o EventsOf(children)
             \o << EndTag(Bare("entry")), EndTag(Bare("feed")) >>)

ContentDocs == { ContentDocument(children) : children \in ContentChildSeqs }

\* The parser on the Atom entries with content and summary elements.
NextParseContent ==
    \/ \E doc \in ContentDocs : OpenDocument(doc)
    \/ ReadEvent

SpecParseContent == Init /\ [][NextParseContent]_vars

\* what the remote host answers when it serves the document with status 200
\* and no ETag: the body is what parse_feed_streaming makes of it
\* (rss.rs:726-737)
Served(doc) ==
    LET r == parse_feed_streaming(doc, "u1")
    IN  [kind |-> "http", status |-> 200, etag |-> None,
         body |-> IF r.ok
                  THEN [ok |-> TRUE,
                        feed |-> [title |-> r.feed.title, link |-> r.feed.link,
                                  feed_kind |-> r.feed.feed_kind],
                        entries |-> [i \in 1..Len(r.entries) |->
                                        [title    |-> r.entries[i].title,
                                         pub_date |-> r.entries[i].pub_date,
                                         link     |-> r.entries[i].link]]]
                  ELSE [ok |-> FALSE]]

\* the items and entries the served documents are made of
ServedElements == { RssItem, EntryWithoutLink }
ServedElementSeqs == UNION { [1..k -> ServedElements] : k \in 0..MaxElements }

\* what the served documents put before and after their items and entries:
\* nothing, a channel element, a self-closing feed element in front, a feed
\* or an rss element
Wrappers ==
    { [before |-> <<>>, after |-> <<>>],
      [before |-> <<StartTag(Bare("channel"), <<>>)>>,
       after  |-> <<EndTag(Bare("channel"))>>],
      [before |-> <<EmptyTag(Bare("feed"), <<>>)>>, after |-> <<>>],
      [before |-> <<StartTag(Bare("feed"), <<>>)>>, after |-> <<EndTag(Bare("feed"))>>],
      [before |-> <<StartTag(Bare("rss"), <<>>)>>, after |-> <<EndTag(Bare("rss"))>>] }

ServedDocs ==
    { Document(w.before \o EventsOf(els) \o w.after) :
          w \in Wrappers, els \in ServedElementSeqs }

\* Two feed URLs whose hosts serve the documents: subscribe and refresh on
\* what the parser makes of each.
NextServed ==
    \/ \E fault \in FaultPoints : InitializeDb(fault)
    \/ \E url \in Urls, doc \in ServedDocs : Subscribe(url, Served(doc), 0)
    \/ \E feed_id \in 1..MaxFeedId, doc \in ServedDocs : Refresh(feed_id, Served(doc), 0)

SpecServed == Init /\ [][NextServed]_vars

\* the texts of a title: plain, with a predefined entity, with an entity
\* XML does not define
TitleTexts == { <<"A">>, <<"A", "&amp;", "B">>, <<"A", "&nbsp;", "B">> }

\* the events of an Atom feed of one entry with the given title text
TitledFeed(text) ==
    << StartTag(Bare("feed"), <<>>), StartTag(Bare("entry"), <<>>),
       StartTag(Bare("title"), <<>>), Text(text), EndTag(Bare("title")),
       EndTag(Bare("entry")), EndTag(Bare("feed")) >>

\* The bodies that fail to decode or to parse, and those that do not: the
\* feed as it is, cut short by a syntax error after k events, with the end
\* tag of the title replaced by that of the entry, and each of them as
\* valid UTF-8 or not.
FailingDocs ==
    LET whole == { TitledFeed(text) : text \in TitleTexts }
        cut == { SubSeq(s, 1, k) \o <<SyntaxError>> : s \in whole, k \in 0..6 }
        crossed == { [s EXCEPT ![5] = EndTag(Bare("entry"))] : s \in whole }
    IN  { [utf8 |-> u, events |-> s] :
             u \in BOOLEAN, s \in whole \cup cut \cup crossed }

\* The parser on the bodies with decode and syntax failures.
NextParseErrors ==
    \/ \E doc \in FailingDocs : OpenDocument(doc)
    \/ ReadEvent

SpecParseErrors == Init /\ [][NextParseErrors]_vars

\* the responses that serve one entry, under one of two links, with status
\* 200 and no ETag
ViewResponses ==
    { [kind |-> "http", status |-> 200, etag |-> None,
       body |-> [ok |-> TRUE, feed |-> m, entries |-> d]] :
          m \in IncomingFeedMetas, d \in { <<Undated>>, <<DayOne>> } }

\* Two feed URLs whose hosts serve one entry at a time: subscribe, refresh,
\* delete and read toggles, and the listings after each.
NextViews ==
    \/ \E fault \in FaultPoints : InitializeDb(fault)
    \/ \E url \in Urls, resp \in ViewResponses : Subscribe(url, resp, 0)
    \/ \E feed_id \in 1..MaxFeedId, resp \in ViewResponses : Refresh(feed_id, resp, 0)
    \/ \E feed_id \in 1..MaxFeedId : DeleteFeed(feed_id, 0)
    \/ \E entry_id \in 1..MaxEntryId : GetEntryMeta(entry_id)
    \/ ToggleRead(0)

SpecViews == Init /\ [][NextViews]_vars

\* the item lists a StatefulList is built with
ItemLists == UNION { [1..k -> {"x", "y"}] : k \in 0..MaxItems }

\* StatefulList::with_items
WithItems(items) ==
    /\ list' = with_items(items)
    /\ UNCHANGED <<db, now, held, parser, entered_url>>

\* the indices the runs follow: without overflow checks an empty list lets
\* next count up and previous count down from usize::MAX without end
Followed(l) ==
    l.selected = None \/ l.selected[1] <= MaxItems \/ l.selected[1] = UsizeMax

\* one call on the list; a panic ends the program
ListNext(checks) ==
    /\ ~list.panicked
    /\ list' = list_next(list, checks)
    /\ Followed(list')
    /\ UNCHANGED <<db, now, held, parser, entered_url>>

ListPrevious(checks) ==
    /\ ~list.panicked
    /\ list' = list_previous(list, checks)
    /\ Followed(list')
    /\ UNCHANGED <<db, now, held, parser, entered_url>>

ListReset ==
    /\ ~list.panicked
    /\ list' = list_reset(list)
    /\ UNCHANGED <<db, now, held, parser, entered_url>>

ListUnselect ==
    /\ ~list.panicked
    /\ list' = list_unselect(list)
    /\ UNCHANGED <<db, now, held, parser, entered_url>>

\* A list of at most MaxItems items under next, previous, reset and
\* unselect, built with and without overflow checks.
NextStatefulList ==
    \/ \E items \in ItemLists : WithItems(items)
    \/ \E checks \in BOOLEAN : ListNext(checks)
    \/ \E checks \in BOOLEAN : ListPrevious(checks)
    \/ ListReset
    \/ ListUnselect

SpecStatefulList == Init /\ [][NextStatefulList]_vars

\* The pieces of the documents that nest items and entries: a start or end
\* tag of an item or entry, or a whole title or link element with a text
\* of its own.
NestPieces ==
    { << StartTag(Bare("item"), <<>>) >>, << EndTag(Bare("item")) >>,
      << StartTag(Bare("entry"), <<>>) >>, << EndTag(Bare("entry")) >>,
      << StartTag(Bare("title"), <<>>), Text(<<"A">>), EndTag(Bare("title")) >>,
      << StartTag(Bare("title"), <<>>), Text(<<"B">>), EndTag(Bare("title")) >>,
      << StartTag(Bare("link"), <<>>), Text(<<"l">>), EndTag(Bare("link")) >> }

RECURSIVE Flatten(_)
Flatten(pieces) ==
    IF pieces = <<>> THEN <<>> ELSE Head(pieces) \o Flatten(Tail(pieces))

NestDocs ==
    { Document(<<StartTag(Bare("feed"), <<>>)>> \o Flatten(pieces)) :
          pieces \in EventSeqs(NestPieces, MaxEvents) }

\* The parser on the documents that nest items and entries.
NextParseNest ==
    \/ \E doc \in NestDocs : OpenDocument(doc)
    \/ ReadEvent

SpecParseNest == Init /\ [][NextParseNest]_vars

\* The strings a user enters: blanks around a scheme part, an authority and
\* a path.
Pads == { <<>>, <<" ">> }
SchemeParts ==
    { <<>>,
      <<"https", ":", "/", "/">>, <<"http", ":", "/", "/">>, <<"HTTP", ":", "/", "/">>,
      <<"ftp", ":", "/", "/">>, <<"mailto", ":", "/", "/">>,
      <<"https", ":">>, <<"ftp", ":">>, <<"mailto", ":">> }
Authorities ==
    { <<>>, <<"example.com">>, <<"Example.COM">>,
      <<"example.com", ":", "443">>, <<"example.com", ":", "8080">>,
      <<"example.com", ":", "feed">>, <<"a", "@", "example.com">> }
Paths ==
    { <<>>, <<"/">>, <<"/", "feed">>, <<"/", "r", "/", "ftp", ":", "/", "/", "x">> }
RawUrls ==
    { lead \o scheme \o authority \o path \o trail :
        lead \in Pads, scheme \in SchemeParts, authority \in Authorities,
        path \in Paths, trail \in Pads }

\* the user enters a feed URL, and the normalizer is applied to it
EnterFeedUrl(raw) ==
    /\ entered_url' = [raw |-> raw, entered |-> TRUE,
                       result |-> validate_and_normalize_feed_url(raw)]
    /\ UNCHANGED <<db, now, held, parser, list>>

NextValidate == \E raw \in RawUrls : EnterFeedUrl(raw)

SpecValidate == Init /\ [][NextValidate]_vars

\* Databases of every schema version: the releases that ended with
\* migration 1 and 2, the present initialize_db, subscriptions and deletions
\* in between, storage failures.
NextMigrate ==
    \/ \E last \in 1..2, fault \in FaultPoints : OlderRelease(last, fault)
    \/ \E fault \in FaultPoints : InitializeDb(fault)
    \/ \E url \in Urls, resp \in ShortResponses, fault \in FaultPoints :
          Subscribe(url, resp, fault)
    \/ \E feed_id \in 1..MaxFeedId, fault \in FaultPoints : DeleteFeed(feed_id, fault)

SpecMigrate == Init /\ [][NextMigrate]_vars

\* the statuses a host answers with: one of each class of fetch_feed and of
\* http_status_error_message
Statuses == { 200, 304, 400, 401, 403, 404, 408, 429, 500, 503, 301, 204 }

\* a transport failure, the short documents with and without an ETag, a
\* body that does not parse, and every other status
StatusResponses ==
    { [kind |-> "transport"] } \cup
    { [kind |-> "http", status |-> 200, etag |-> e, body |-> b] :
          e \in OptETags,
          b \in { x \in Bodies : x.ok => x.entries \in { <<>>, <<Undated>> } } } \cup
    { [kind |-> "http", status |-> s, etag |-> None] : s \in Statuses \ {200} }

\* Subscriptions, refreshes and deletions against hosts that answer with
\* any status, over the days.
NextFetch ==
    \/ \E fault \in FaultPoints : InitializeDb(fault)
    \/ \E url \in Urls, resp \in StatusResponses, fault \in FaultPoints :
          Subscribe(url, resp, fault)
    \/ \E feed_id \in 1..MaxFeedId, resp \in StatusResponses, fault \in FaultPoints :
          Refresh(feed_id, resp, fault)
    \/ \E feed_id \in 1..MaxFeedId, fault \in FaultPoints : DeleteFeed(feed_id, fault)
    \/ Tick

SpecFetch == Init /\ [][NextFetch]_vars

TypeOK ==
    /\ db.seq_feeds \in 0..MaxFeedId
    /\ db.seq_entries \in 0..MaxEntryId
    /\ \A f \in db.feeds : f.id \in 1..db.seq_feeds
    /\ \A e \in db.entries : e.id \in 1..db.seq_entries


(***************************************************************************)
(* Properties.                                                             *)
(***************************************************************************)
\* the responses fetch_feed turns into a CacheMiss / a CacheHit
IsMiss(resp) == resp.kind = "http" /\ resp.status = 200 /\ resp.body.ok
IsHit(resp) == resp.kind = "http" /\ resp.status = 304

FeedIds == 1..MaxFeedId

EntriesOf(d, feed_id) == { e \in d.entries : e.feed_id = feed_id }
EntryIds(d) == { e.id : e \in d.entries }
NewEntries(d, d2) == { e \in d2.entries : e.id \notin EntryIds(d) }
CountLink(d, feed_id, l) ==
    Cardinality({ e \in EntriesOf(d, feed_id) : e.link = l })

\* C1: a refresh answered 200 does not insert a fetched entry whose link is
\* the link of an entry already stored for the feed, whatever its title or
\* date: the number of the feed's stored entries with that link does not grow.
C1_KnownLinkNotReinserted ==
    \A feed_id \in FeedIds, resp \in Responses, fault \in FaultPoints :
        IsMiss(resp) =>
            LET r == refresh_feed(db, feed_id, resp, fault, now)
                items == resp.body.entries
            IN  \A i \in 1..Len(items) :
                    (/\ items[i].link # None
                     /\ CountLink(db, feed_id, items[i].link) > 0)
                    => CountLink(r.db, feed_id, items[i].link)
                         <= CountLink(db, feed_id, items[i].link)

\* a feed stores a read entry, and a successful refresh fetches its link
\* under another title and date
C1_Witness ==
    \E feed_id \in FeedIds, resp \in Responses :
        /\ IsMiss(resp)
        /\ refresh_feed(db, feed_id, resp, 0, now).ok
        /\ refresh_feed(db, feed_id, resp, 0, now).db # db
        /\ \E i \in 1..Len(resp.body.entries), e \in EntriesOf(db, feed_id) :
              /\ e.link # None
              /\ e.read_at # None
              /\ resp.body.entries[i].link = e.link
              /\ resp.body.entries[i].title # e.title
              /\ resp.body.entries[i].pub_date # e.pub_date

\* C2: no two stored feeds have the same feed_link, and a subscribe to a URL
\* that is the feed_link of a stored feed fails and leaves the database as
\* it was.
C2_FeedLinkUnique ==
    /\ \A f, g \in db.feeds : f.feed_link = g.feed_link => f = g
    /\ \A url \in Urls, resp \in Responses, fault \in FaultPoints :
          (\E f \in db.feeds : f.feed_link = Some(url)) =>
              LET r == subscribe_to_feed(db, url, resp, fault, now)
              IN  ~r.ok /\ r.db = db

\* two feeds are stored, and a subscribe to the URL of one of them, answered
\* 200 with a parsable document, is refused by the database
C2_Witness ==
    /\ Cardinality(db.feeds) = 2
    /\ \E f \in db.feeds, resp \in Responses :
          /\ IsMiss(resp)
          /\ subscribe_to_feed(db, f.feed_link[1], resp, 0, now).why = "db"

\* C3: when refresh_feed returns an error (unknown feed id, transport or
\* status error, parse error, failure of a write of its transaction) the
\* database is as before the call; and a refresh that stores new entries
\* also stores the feed's refreshed_at.
C3_FailedRefreshChangesNothing ==
    \A feed_id \in FeedIds, resp \in Responses, fault \in FaultPoints :
        LET r == refresh_feed(db, feed_id, resp, fault, now)
        IN  /\ ~r.ok => r.db = db
            /\ NewEntries(db, r.db) # {} =>
                  \A f \in FeedRows(r.db, feed_id) : f.refreshed_at = Some(now)

\* a refresh of a feed with a stored ETag and an earlier refreshed_at fails
\* at the update of refreshed_at, after its closure inserted an entry
C3_Witness ==
    \E f \in db.feeds, resp \in Responses :
        /\ IsMiss(resp)
        /\ f.refreshed_at # None
        /\ f.refreshed_at # Some(now)
        /\ LET body == refresh_miss_body(db, f.id,
                            fetch_feed(f.feed_link[1], f.latest_etag, resp))
           IN  /\ NumInserts(body) = 1
               /\ Run(db, body, 2, now).db.entries # db.entries
               /\ refresh_feed(db, f.id, resp, 2, now).why = "db"

\* the transaction bodies the handlers can run in database d
TxBodies(d) ==
    { subscribe_body(d, fetch_feed(url, None, resp)) :
          url \in Urls, resp \in { x \in Responses : IsMiss(x) } }
    \cup { refresh_miss_body(d, f.id, fetch_feed(f.feed_link[1], f.latest_etag, resp)) :
          f \in d.feeds, resp \in { x \in Responses : IsMiss(x) } }
    \cup { refresh_hit_body(feed_id) : feed_id \in FeedIds }
    \cup { delete_feed_body(feed_id) : feed_id \in FeedIds }
    \cup { update_feed_title_body(feed_id, t) : feed_id \in FeedIds, t \in NewTitles }

\* the database after every statement of a body has taken effect
RECURSIVE ApplyAll(_, _, _)
ApplyAll(d, stmts, t) ==
    IF stmts = <<>>
    THEN d
    ELSE ApplyAll(Exec(d, Head(stmts), t).db, Tail(stmts), t)

\* C4: in_transaction commits every write of its closure when the closure
\* returns Ok (and the COMMIT goes through); when the closure returns an
\* error, after any number of successful writes, every table is as before
\* the call and the error is returned.
C4_CommitOrRollback ==
    \A stmts \in TxBodies(db), fault \in FaultPoints :
        LET f == Run(db, stmts, fault, now)
            tx == in_transaction(db, stmts, fault, now)
        IN  /\ (f.ok /\ fault # Len(stmts) + 1) =>
                  tx.ok /\ tx.db = ApplyAll(db, stmts, now)
            /\ ~f.ok => ~tx.ok /\ tx.db = db

\* a closure fails after writes that changed both tables
C4_Witness ==
    \E stmts \in TxBodies(db), fault \in FaultPoints :
        LET f == Run(db, stmts, fault, now)
        IN  /\ ~f.ok
            /\ f.n >= 2
            /\ f.db.feeds # db.feeds
            /\ f.db.entries # db.entries
            /\ ~in_transaction(db, stmts, fault, now).ok

\* C5: a refresh that fetches the document the previous refresh of the feed
\* fetched (or is answered 304) returns Ok and stores no entry that was not
\* stored before it.
C5_UnchangedDocumentAddsNothing ==
    \A feed_id \in FeedIds, resp \in Responses :
        IsMiss(resp) =>
            LET first == refresh_feed(db, feed_id, resp, 0, now)
            IN  first.ok =>
                  \A again \in { resp } \cup { x \in Responses : IsHit(x) } :
                      LET second == refresh_feed(first.db, feed_id, again, 0, now)
                      IN  /\ second.ok
                          /\ second.db.entries \subseteq first.db.entries

\* C6: every stored entry's feed_id is the id of a stored feed.
C6_EntriesBelongToFeeds ==
    \A e \in db.entries : \E f \in db.feeds : f.id = e.feed_id

\* a feed that had entries was deleted, another feed still has entries, and
\* a refresh of the deleted id is refused
C6_Witness ==
    /\ Cardinality(db.feeds) < db.seq_feeds
    /\ Cardinality(db.entries) < db.seq_entries
    /\ db.entries # {}
    /\ \E feed_id \in FeedIds, resp \in Responses :
          /\ FeedRows(db, feed_id) = {}
          /\ feed_id <= db.seq_feeds
          /\ IsMiss(resp)
          /\ refresh_feed(db, feed_id, resp, 0, now).why = "lookup"

\* C7: delete_feed removes the feed row and every entry of the feed in one
\* step: after an Ok neither exists, after an error the database is as
\* before, so the feed is never gone while entries of it remain.
C7_DeleteFeedAtomic ==
    \A feed_id \in FeedIds, fault \in FaultPoints :
        LET r == delete_feed(db, feed_id, fault, now)
        IN  /\ r.ok => /\ FeedRows(r.db, feed_id) = {}
                       /\ EntriesOf(r.db, feed_id) = {}
                       /\ r.db.feeds = db.feeds \ FeedRows(db, feed_id)
                       /\ r.db.entries = db.entries \ EntriesOf(db, feed_id)
            /\ ~r.ok => r.db = db
            /\ FeedRows(r.db, feed_id) = {} => EntriesOf(r.db, feed_id) = {}

\* a feed with entries: its deletion succeeds, and fails when the second
\* DELETE fails
C7_Witness ==
    \E f \in db.feeds :
        /\ EntriesOf(db, f.id) # {}
        /\ delete_feed(db, f.id, 0, now).ok
        /\ ~delete_feed(db, f.id, 2, now).ok
        /\ Run(db, delete_feed_body(f.id), 2, now).db.feeds # db.feeds

\* C8: a successful subscribe adds one feed row, with the fetched URL as
\* feed_link, and stores every fetched entry under its id, unread, also the
\* entries without a link and those older than the retention window; a
\* failing one stores neither the feed nor any entry.
C8_SubscribeStoresEverything ==
    \A url \in Urls, resp \in Responses, fault \in FaultPoints :
        LET r == subscribe_to_feed(db, url, resp, fault, now)
            id == db.seq_feeds + 1
        IN  /\ ~r.ok => r.db = db
            /\ r.ok =>
                  /\ IsMiss(resp)
                  /\ \E f \in r.db.feeds :
                        /\ r.db.feeds = db.feeds \cup {f}
                        /\ f \notin db.feeds
                        /\ f.id = id
                        /\ f.feed_link = Some(url)
                  /\ db.entries \subseteq r.db.entries
                  /\ EntryIds(r.db) \ EntryIds(db) =
                        { db.seq_entries + i : i \in 1..Len(resp.body.entries) }
                  /\ \A i \in 1..Len(resp.body.entries) :
                        \E e \in r.db.entries :
                            /\ e.id = db.seq_entries + i
                            /\ e.feed_id = id
                            /\ e.read_at = None
                            /\ e.title = resp.body.entries[i].title
                            /\ e.pub_date = resp.body.entries[i].pub_date
                            /\ e.link = resp.body.entries[i].link

\* a subscribe stores a document holding an entry without a link and an
\* entry dated before the retention window
C8_Witness ==
    \E resp \in Responses :
        /\ IsMiss(resp)
        /\ subscribe_to_feed(db, "u1", resp, 0, now).ok
        /\ \E i, j \in 1..Len(resp.body.entries) :
              /\ resp.body.entries[i].link = None
              /\ resp.body.entries[j].pub_date # None
              /\ resp.body.entries[j].pub_date[1] < now - ENTRY_RETENTION_DAYS

\* C9: a subscription fetch answered 304 makes subscribe_to_feed fail with
\* the unexpected-cache-hit error and leaves the database unchanged.
C9_SubscribeCacheHitIsError ==
    \A url \in Urls, resp \in Responses, fault \in FaultPoints :
        IsHit(resp) =>
            LET r == subscribe_to_feed(db, url, resp, fault, now)
            IN  ~r.ok /\ r.why = "logic" /\ r.db = db

\* on an initialized database without a feed for the URL, the same
\* subscribe succeeds on a 200 and reports the cache hit on a 304
C9_Witness ==
    /\ db.user_version = 3
    /\ \A f \in db.feeds : f.feed_link # Some("u1")
    /\ \E miss, hit \in Responses :
          /\ IsMiss(miss)
          /\ IsHit(hit)
          /\ subscribe_to_feed(db, "u1", miss, 0, now).ok
          /\ subscribe_to_feed(db, "u1", hit, 0, now).why = "logic"

\* C10: a cache-miss refresh never inserts a fetched entry without a link,
\* whatever the feed stores.
C10_NoLinkNeverInserted ==
    \A feed_id \in FeedIds, resp \in Responses, fault \in FaultPoints :
        IsMiss(resp) =>
            \A e \in NewEntries(db, refresh_feed(db, feed_id, resp, fault, now).db) :
                e.link # None

\* a feed without stored entries is refreshed with a document holding an
\* entry without a link and an entry with one: one entry is stored
C10_Witness ==
    \E f \in db.feeds, resp \in Responses :
        /\ IsMiss(resp)
        /\ EntriesOf(db, f.id) = {}
        /\ \E i \in 1..Len(resp.body.entries) : resp.body.entries[i].link = None
        /\ Cardinality(NewEntries(db, refresh_feed(db, f.id, resp, 0, now).db)) = 1

\* the entries of a feed that the retention pruning at time t deletes
Expired(d, feed_id, t) ==
    { e \in EntriesOf(d, feed_id) : Coalesce(e) < t - ENTRY_RETENTION_DAYS }

\* C11: a refresh answered 304 sets the feed's refreshed_at to the current
\* time and deletes the feed's entries older than the retention window; it
\* inserts no entry, leaves every remaining entry as it was, and leaves the
\* stored ETag and every other field of every feed unchanged.
C11_CacheHitFrame ==
    \A feed_id \in FeedIds, resp \in RetentionResponses :
        IsHit(resp) =>
            LET r == refresh_feed(db, feed_id, resp, 0, now)
            IN  r.ok =>
                  /\ NewEntries(db, r.db) = {}
                  /\ r.db.entries = db.entries \ Expired(db, feed_id, now)
                  /\ r.db.feeds =
                        { IF f.id = feed_id
                          THEN [f EXCEPT !.refreshed_at = Some(now)]
                          ELSE f : f \in db.feeds }
                  /\ \A f \in FeedRows(r.db, feed_id) :
                        /\ f.refreshed_at = Some(now)
                        /\ \A g \in FeedRows(db, feed_id) :
                              f.latest_etag = g.latest_etag

\* a feed with a stored ETag and an earlier refreshed_at holds an expired
\* entry and a read entry that stays, and a refresh of it is answered 304
C11_Witness ==
    \E f \in db.feeds, resp \in RetentionResponses :
        /\ IsHit(resp)
        /\ refresh_feed(db, f.id, resp, 0, now).ok
        /\ f.latest_etag # None
        /\ f.refreshed_at # None
        /\ f.refreshed_at # Some(now)
        /\ Expired(db, f.id, now) # {}
        /\ \E e \in EntriesOf(db, f.id) \ Expired(db, f.id, now) : e.read_at # None

\* C12: the retention pruning for a feed at time now deletes exactly the
\* entries of that feed whose pub_date, or inserted_at when there is no
\* pub_date, is earlier than now minus 365 days; the entries of the feed at
\* or after that cutoff and the entries of every other feed stay as they are,
\* and so does the feeds table.
C12_PruneExactlyExpired ==
    \A feed_id \in FeedIds :
        db.user_version # 0 =>
            LET r == prune_old_entries_for_feed(db, feed_id, ENTRY_RETENTION_DAYS, now)
                Date(e) == IF e.pub_date = None THEN e.inserted_at ELSE e.pub_date[1]
            IN  /\ r.ok
                /\ r.db.feeds = db.feeds
                /\ r.db.entries \subseteq db.entries
                /\ \A e \in db.entries :
                      e \in r.db.entries <=>
                          (e.feed_id # feed_id \/ Date(e) >= now - 365)

\* two feeds each hold an entry older than the cutoff, and the pruning for
\* one of them deletes its entry and keeps the other's
C12_Witness ==
    \E e2, e3 \in db.entries :
        /\ e3.feed_id # e2.feed_id
        /\ Coalesce(e2) < now - ENTRY_RETENTION_DAYS
        /\ Coalesce(e3) < now - ENTRY_RETENTION_DAYS
        /\ prune_old_entries_for_feed(db, e2.feed_id, ENTRY_RETENTION_DAYS, now).db.entries
              = db.entries \ {e2}

\* C13: for every stored feed whose refreshed_at is set, every stored entry
\* of the feed has a pub_date (or, without one, an inserted_at) no earlier
\* than 365 days before that refreshed_at; and right after a successful
\* refresh, hit or miss, this holds with refreshed_at the time of the
\* refresh, also for the entries that refresh inserted.
C13_RetainedWithinWindow ==
    /\ \A f \in db.feeds :
          f.refreshed_at # None =>
              \A e \in EntriesOf(db, f.id) :
                  Coalesce(e) >= f.refreshed_at[1] - ENTRY_RETENTION_DAYS
    /\ \A feed_id \in FeedIds, resp \in RetentionResponses :
          LET r == refresh_feed(db, feed_id, resp, 0, now)
          IN  r.ok =>
                /\ \A f \in FeedRows(r.db, feed_id) : f.refreshed_at = Some(now)
                /\ \A e \in EntriesOf(r.db, feed_id) :
                      Coalesce(e) >= now - ENTRY_RETENTION_DAYS

\* a feed refreshed earlier is refreshed with a document of two new items,
\* one of them dated before the window: both are inserted, one stays
C13_Witness ==
    \E f \in db.feeds, resp \in RetentionResponses :
        /\ IsMiss(resp)
        /\ f.refreshed_at # None
        /\ f.refreshed_at # Some(now)
        /\ LET body == refresh_miss_body(db, f.id,
                            fetch_feed(f.feed_link[1], f.latest_etag, resp))
               r == refresh_feed(db, f.id, resp, 0, now)
           IN  /\ r.ok
               /\ NumInserts(body) = 2
               /\ Cardinality(NewEntries(db, r.db)) = 1

\* C14: marking a stored unread entry read and then unread leaves its
\* read_at unset and the database as it was, so the unread count of every
\* feed is as before; between the two operations the unread count of the
\* entry's feed is one lower and that of every other feed is unchanged.  The
\* same holds for two toggle_read calls on freshly loaded metadata.
C14_ReadThenUnread ==
    \A e \in db.entries :
        e.read_at = None =>
            LET r1 == mark_as_read(db, e, 0, now)
                r2 == mark_as_unread(r1.db, e, 0, now)
                t1 == toggle_read(db, e, 0, now)
            IN  /\ r1.ok /\ r2.ok
                /\ \A x \in get_entry_meta_rows(r1.db, e.id) : x.read_at = Some(now)
                /\ \A x \in get_entry_meta_rows(r2.db, e.id) : x.read_at = None
                /\ \A feed_id \in FeedIds :
                      /\ count_unread_entries(r1.db, feed_id) =
                            count_unread_entries(db, feed_id)
                              - (IF feed_id = e.feed_id THEN 1 ELSE 0)
                      /\ count_unread_entries(r2.db, feed_id) =
                            count_unread_entries(db, feed_id)
                /\ r2.db = db
                /\ t1.db = r1.db
                /\ \A x \in get_entry_meta_rows(t1.db, e.id) :
                      toggle_read(t1.db, x, 0, now).db = db

\* an entry was loaded while read and is unread again, next to a read entry
\* of another feed
C14_Witness ==
    /\ held # None
    /\ held[1].read_at # None
    /\ \E e, x \in db.entries :
          /\ e.id = held[1].id
          /\ e.read_at = None
          /\ x.feed_id # e.feed_id
          /\ x.read_at # None
          /\ count_unread_entries(mark_as_read(db, e, 0, now).db, e.feed_id) = 0

\* the feed-level columns a refresh must not touch
SameIdentity(f, g) ==
    /\ g.title = f.title
    /\ g.feed_link = f.feed_link
    /\ g.link = f.link
    /\ g.feed_kind = f.feed_kind

\* C15: a refresh, answered 304 or 200, successful or not, leaves the title,
\* feed_link, link and feed_kind of every stored feed as they were, also when
\* the fetched document declares another title, link and kind; subscribe,
\* delete and read toggles leave the titles of the feeds they keep; and
\* update_feed_title sets the title of the named feed and changes nothing
\* else in either table.
C15_OnlyRenameChangesTitle ==
    /\ \A feed_id \in FeedIds, resp \in Responses \cup RetitledResponses,
          fault \in FaultPoints :
          LET r == refresh_feed(db, feed_id, resp, fault, now)
          IN  /\ { g.id : g \in r.db.feeds } = { f.id : f \in db.feeds }
              /\ \A f \in db.feeds : \A g \in FeedRows(r.db, f.id) : SameIdentity(f, g)
    /\ \A url \in Urls, resp \in Responses \cup RetitledResponses :
          LET r == subscribe_to_feed(db, url, resp, 0, now)
          IN  \A f \in db.feeds : \A g \in FeedRows(r.db, f.id) : SameIdentity(f, g)
    /\ \A feed_id \in FeedIds :
          LET r == delete_feed(db, feed_id, 0, now)
          IN  \A f \in db.feeds : \A g \in FeedRows(r.db, f.id) : SameIdentity(f, g)
    /\ \A e \in db.entries : toggle_read(db, e, 0, now).db.feeds = db.feeds
    /\ \A feed_id \in FeedIds, t \in NewTitles, fault \in FaultPoints :
          LET u == update_feed_title(db, feed_id, t, fault, now)
          IN  /\ u.db.entries = db.entries
              /\ ~u.ok => u.db = db
              /\ u.ok => u.db.feeds =
                    { IF f.id = feed_id THEN [f EXCEPT !.title = Some(t)] ELSE f
                      : f \in db.feeds }

\* two feeds are stored, one of them renamed: a refresh of the renamed one
\* succeeds on a document that declares another title and kind, and a rename
\* of the other one succeeds
C15_Witness ==
    \E f, g \in db.feeds, resp \in RetitledResponses, t \in NewTitles :
        /\ f.id # g.id
        /\ f.title = Some(t)
        /\ g.title # Some(t)
        /\ resp.body.feed.title # f.title
        /\ resp.body.feed.feed_kind # f.feed_kind
        /\ refresh_feed(db, f.id, resp, 0, now).ok
        /\ NewEntries(db, refresh_feed(db, f.id, resp, 0, now).db) # {}
        /\ update_feed_title(db, g.id, t, 0, now).ok

\* the ways of writing the names that decide the feed kind
AtomTagNames == { Bare("feed"), Prefixed("atom", "feed"), Clark("feed") }
RssTagNames ==
    { Bare("rss"), Prefixed("x", "rss"), Clark("rss"),
      Bare("RDF"), Prefixed("rdf", "RDF"), Clark("RDF") }

\* the kind named by the first start tag among the first n events that
\* bears one of those names
FirstKind(events, n) ==
    LET idx == { i \in 1..n : /\ events[i].t = "Start"
                               /\ events[i].name \in AtomTagNames \cup RssTagNames }
    IN  IF idx = {} THEN None
        ELSE IF events[Min(idx)].name \in AtomTagNames THEN Some("Atom")
        ELSE Some("RSS")

\* C16: at every point of a parse the feed kind is the one named by the
\* first start tag read so far whose local name is feed (Atom) or rss or RDF
\* (RSS), whether the name is written bare, with a default namespace, with a
\* prefix or in Clark notation; a later such tag does not change it, and the
\* kind of a finished parse is that kind.
C16_KindIsFirstRootTag ==
    /\ parser.status # "idle" =>
          parser.st.feed_type = FirstKind(parser.input.events, parser.pos)
    /\ parser.status = "ok" =>
          LET res == parse_feed_streaming(parser.input, "u1")
          IN  /\ res.ok
              /\ Some(res.feed.feed_kind) =
                    FirstKind(parser.input.events, Len(parser.input.events))

\* a finished parse of a document whose first kind tag is a prefixed or
\* Clark-notation feed and whose later tag is an rss or RDF tag
C16_Witness ==
    /\ parser.status = "ok"
    /\ parser.st.feed_type = Some("Atom")
    /\ \E i, j \in 1..Len(parser.input.events) :
          /\ i < j
          /\ parser.input.events[i].t = "Start"
          /\ parser.input.events[i].name \in { Prefixed("atom", "feed"), Clark("feed") }
          /\ \A k \in 1..(i - 1) :
                parser.input.events[k].name \notin AtomTagNames \cup RssTagNames
          /\ parser.input.events[j].t = "Start"
          /\ parser.input.events[j].name \in RssTagNames

\* <feed><title>T</title><link href="http://x/"/><entry><title>E</title>
\* <link href="http://x/1"/></entry></feed>
MinimalAtom ==
    Document(<< StartTag(Bare("feed"), <<>>),
                StartTag(Bare("title"), <<>>), Text(<<"T">>), EndTag(Bare("title")),
                EmptyTag(Bare("link"), <<Attr(<<"href">>, <<"http", ":", "//x/">>)>>) >>
             \o AtomSelfClosing.events
             \o << EndTag(Bare("feed")) >>)

\* C17: a finished parse outputs one entry for each entry or item element of
\* the document, in document order, with the element's title and with the
\* value of the href attribute of its link element as link when there is
\* one (also under a namespace-qualified attribute name) and the text of the
\* link element otherwise; and the minimal Atom document yields exactly one
\* entry, titled E with link http://x/1.
C17_EntryPerElementWithLink ==
    /\ parser.status = "ok" =>
          \A els \in ElementSeqs, root \in {"feed", "rss"} :
              parser.input = FeedDocument(root, els) =>
                  /\ Len(parser.st.entries) = Len(els)
                  /\ \A i \in 1..Len(els) :
                        /\ parser.st.entries[i].title = els[i].title
                        /\ parser.st.entries[i].link = els[i].link
    /\ LET res == parse_feed_streaming(MinimalAtom, "u1")
       IN  /\ res.ok
           /\ res.entries =
                 << [BlankEntry EXCEPT !.title = Some(<<"E">>), !.link = Some(Url1)] >>

\* the schema objects and the version a database has after the migrations
\* numbered above its version ran once each, in increasing order
SchemaObjects(k) ==
    CASE k = 1 -> { "feeds", "entries",
                    "entries_feed_id_and_pub_date_and_inserted_at_index" }
      [] k = 2 -> { "feeds.latest_etag" }
      [] k = 3 -> { "feeds_feed_link" }
MigrationOf(k) == CASE k = 1 -> Migration1 [] k = 2 -> Migration2 [] k = 3 -> Migration3
RECURSIVE MigrateFrom(_, _)
MigrateFrom(d, k) ==
    IF k > 3 THEN d ELSE MigrateFrom(ApplyAll(d, MigrationOf(k), 0), k + 1)

FetchCases ==
    { [url |-> u, current_etag |-> None] : u \in Urls } \cup
    { [url |-> f.feed_link[1], current_etag |-> f.latest_etag] :
          f \in { g \in db.feeds : g.feed_link # None } }

\* C19: the response status decides the outcome of a fetch: 200 (with a body
\* that parses) gives CacheMiss with the parsed feed and entries and the
\* ETag of the response, 304 gives CacheHit, every other status gives the
\* error whose message is http_status_error_message of that status, and the
\* error of a transport failure differs from the error of every status.
C19_OutcomeByStatus ==
    \A c \in FetchCases :
        LET fetch(resp) == fetch_feed(c.url, c.current_etag, resp)
            transport == fetch([kind |-> "transport"])
        IN  /\ \A resp \in StatusResponses :
                  resp.kind = "http" =>
                      LET got == fetch(resp)
                      IN  CASE resp.status = 200 ->
                                  resp.body.ok =>
                                      /\ got.r = "miss"
                                      /\ got.entries = resp.body.entries
                                      /\ got.feed.title = resp.body.feed.title
                                      /\ got.feed.latest_etag = resp.etag
                            [] resp.status = 304 -> got.r = "hit"
                            [] OTHER ->
                                  /\ got.r = "err"
                                  /\ got.msg = http_status_error_message(resp.status, c.url)
                                  /\ got.msg # transport.msg
            /\ transport.r = "err"

\* a string that is the serialization of the URL it parses to
IsCanonical(s) == Url_parse(s).ok /\ Url_to_string(Url_parse(s)) = s

\* a string that opens with a scheme and the separator "://"
NamesScheme(s, scheme) ==
    /\ Len(s) >= 4
    /\ s[1] \in Names /\ to_lowercase(s[1]) = scheme
    /\ s[2] = ":" /\ s[3] = "/" /\ s[4] = "/"

HttpsPrefix == <<"https", ":", "/", "/">>
StartsWith(s, prefix) == Len(s) >= Len(prefix) /\ SubSeq(s, 1, Len(prefix)) = prefix

\* C21: an input that, trimmed, is not empty and has no "://" is handled as
\* that input with https:// put before it: the result is the result for the
\* prefixed string, and a successful result starts with https://; the input
\* example.com/feed succeeds so.
C21_HttpsWhenNoScheme ==
    /\ entered_url.entered =>
          LET trimmed == trim(entered_url.raw)
              res == entered_url.result
          IN  (trimmed # <<>> /\ ~contains_scheme_separator(trimmed)) =>
                  /\ res = validate_and_normalize_feed_url(HttpsPrefix \o trimmed)
                  /\ res.ok => StartsWith(res.url, HttpsPrefix)
    /\ LET res == validate_and_normalize_feed_url(<<"example.com", "/", "feed">>)
       IN  res.ok /\ res.url = HttpsPrefix \o <<"example.com", "/", "feed">>

\* a host and path entered without a scheme, accepted as an https URL
C21_Witness ==
    /\ entered_url.entered
    /\ trim(entered_url.raw) = <<"Example.COM", "/", "feed">>
    /\ entered_url.result.ok
    /\ entered_url.result.url = HttpsPrefix \o <<"example.com", "/", "feed">>

\* C22: an input that is empty or all blanks is refused with "feed url
\* cannot be empty", whatever parsing the https:// form of it would give.
C22_EmptyRejected ==
    (/\ entered_url.entered
     /\ \A i \in 1..Len(entered_url.raw) : entered_url.raw[i] = " ")
        => entered_url.result = [ok |-> FALSE, why |-> "feed url cannot be empty"]

\* two blanks entered and refused as empty
C22_Witness ==
    /\ entered_url.entered
    /\ entered_url.raw = <<" ", " ">>
    /\ ~entered_url.result.ok
    /\ entered_url.result.why = "feed url cannot be empty"

ReadModes == { "ShowUnread", "ShowRead", "All" }

\* C23: get_entries_metas(mode, f) answers with the stored entries of feed f
\* that match the mode, each once and nothing else (ShowUnread: read_at
\* unset, ShowRead: read_at set, All: every entry of f); a dated entry never
\* follows one of an earlier pub_date, and among entries of the same
\* pub_date, or without pub_date, none follows one inserted earlier.
C23_ListingFilteredAndSorted ==
    db.user_version # 0 =>
        \A feed_id \in FeedIds, read_mode \in ReadModes :
            LET res == get_entries_metas(db, read_mode, feed_id)
                expected ==
                    { e \in db.entries :
                        /\ e.feed_id = feed_id
                        /\ \/ read_mode = "All"
                           \/ read_mode = "ShowUnread" /\ e.read_at = None
                           \/ read_mode = "ShowRead" /\ e.read_at # None }
            IN  /\ res.ok
                /\ res.rows # {}
                /\ \A q \in res.rows :
                      /\ Len(q) = Cardinality(expected)
                      /\ { q[i] : i \in 1..Len(q) } = expected
                      /\ \A i, j \in 1..Len(q) :
                            i < j =>
                              /\ (q[i].pub_date # None /\ q[j].pub_date # None) =>
                                    q[i].pub_date[1] >= q[j].pub_date[1]
                              /\ q[i].pub_date = q[j].pub_date =>
                                    q[i].inserted_at >= q[j].inserted_at

\* a feed with an entry of day 2 stored on day 0 and an entry of day 1
\* stored a day later, listed newest pub_date first
C23_Witness ==
    \E a, b \in db.entries :
        /\ a.feed_id = 1 /\ b.feed_id = 1
        /\ a.pub_date = Some(2) /\ a.inserted_at = 0
        /\ b.pub_date = Some(1) /\ b.inserted_at = 1
        /\ get_entries_metas(db, "All", 1).rows = { <<a, b>> }

\* the stored ETag of a feed
StoredETag(d, feed_id) == (CHOOSE f \in FeedRows(d, feed_id) : TRUE).latest_etag

\* the ETag header of a response as the wire has it, whatever the case of
\* its name
WireETag(resp) ==
    IF "headers" \in DOMAIN resp
    THEN LET found == { i \in 1..Len(resp.headers) :
                          resp.headers[i].name \in { "ETag", "etag", "ETAG" } }
         IN  IF found = {} THEN None
             ELSE Some(resp.headers[Min(found)].value)
    ELSE resp.etag

\* C24: a refresh sends If-None-Match exactly when an ETag is stored for
\* the feed, with the stored value; and the stored ETag is that of the most
\* recent 200 response for the feed: a successful subscribe stores the ETag
\* of its response, a successful cache-miss refresh stores the ETag of its
\* response, and a cache hit or a failed refresh leaves the stored ETag.
C24_StoredETagIsLatest ==
    /\ \A f \in db.feeds :
          f.feed_link # None =>
              refresh_request(db, f.id).if_none_match = f.latest_etag
    /\ \A url \in Urls, resp \in ETagResponses :
          LET r == subscribe_to_feed(db, url, resp, 0, now)
          IN  (r.ok /\ InBounds(r.db)) =>
                  StoredETag(r.db, db.seq_feeds + 1) = WireETag(resp)
    /\ \A f \in db.feeds, resp \in ETagResponses, fault \in FaultPoints :
          LET r == refresh_feed(db, f.id, resp, fault, now)
          IN  StoredETag(r.db, f.id) =
                  IF r.ok /\ IsMiss(resp) THEN WireETag(resp) ELSE f.latest_etag

\* C25: after a successful cache-miss refresh the stored ETag of the feed is
\* the ETag header of that response, under whatever case its name is
\* written, and null when the response has none, whatever was stored before.
C25_MissRefreshStoresETag ==
    \A f \in db.feeds, resp \in ETagResponses :
        LET r == refresh_feed(db, f.id, resp, 0, now)
        IN  (r.ok /\ IsMiss(resp)) =>
                /\ StoredETag(r.db, f.id) = WireETag(resp)
                /\ \A g \in r.db.feeds : g.id # f.id =>
                      g.latest_etag = StoredETag(db, g.id)

\* a feed that stores an ETag, on which a refresh answered 200 without an
\* ETag clears it and one answered 200 with "etag: e2" replaces it
C25_Witness ==
    \E f \in db.feeds :
        /\ f.latest_etag = Some("e1")
        /\ \E resp \in ETagResponses :
              /\ IsMiss(resp) /\ resp.headers = <<>>
              /\ refresh_feed(db, f.id, resp, 0, now).ok
              /\ StoredETag(refresh_feed(db, f.id, resp, 0, now).db, f.id) = None
        /\ \E resp \in ETagResponses :
              /\ IsMiss(resp) /\ resp.headers = <<Header("etag", "e2")>>
              /\ refresh_feed(db, f.id, resp, 0, now).ok
              /\ StoredETag(refresh_feed(db, f.id, resp, 0, now).db, f.id) = Some("e2")

\* the links of the entries stored for a feed
StoredLinks(d, feed_id) == { e.link : e \in EntriesOf(d, feed_id) }

\* C26: over two refreshes of a feed in a row, whatever the host answers, no
\* entry is inserted under a link that an entry of the feed had before that
\* refresh, in the state or after the first of the two refreshes, pruned
\* since or not.
C26_LinkNeverInsertedAgain ==
    \A feed_id \in FeedIds, resp1 \in Responses, resp2 \in Responses :
        LET first == refresh_feed(db, feed_id, resp1, 0, now)
            second == refresh_feed(first.db, feed_id, resp2, 0, now)
            known == StoredLinks(db, feed_id) \cup StoredLinks(first.db, feed_id)
        IN  \A e \in NewEntries(first.db, second.db) :
                e.feed_id = feed_id => e.link \notin known

\* every entry of d that is still stored in d2 is stored there as it was
EntriesKept(d, d2) ==
    \A e \in d.entries, e2 \in d2.entries : e2.id = e.id => e2 = e

\* C27: initialize_db, subscribe_to_feed, refresh_feed (also when the
\* document serves a stored link under another title or date),
\* delete_feed and update_feed_title leave every stored entry that they do
\* not delete as it was; toggle_read deletes nothing, adds nothing and
\* changes read_at only.
C27_OnlyToggleChangesEntries ==
    /\ \A fault \in FaultPoints :
          /\ EntriesKept(db, initialize_db(db, fault, now).db)
          /\ \A resp \in Responses :
                /\ EntriesKept(db, subscribe_to_feed(db, "u1", resp, fault, now).db)
                /\ \A feed_id \in FeedIds :
                      EntriesKept(db, refresh_feed(db, feed_id, resp, fault, now).db)
          /\ \A feed_id \in FeedIds :
                /\ EntriesKept(db, delete_feed(db, feed_id, fault, now).db)
                /\ \A t \in NewTitles :
                      EntriesKept(db, update_feed_title(db, feed_id, t, fault, now).db)
    /\ held # None =>
          \A fault \in 0..1 :
              LET r == toggle_read(db, held[1], fault, now)
              IN  /\ EntryIds(r.db) = EntryIds(db)
                  /\ \A e \in db.entries, e2 \in r.db.entries :
                        e2.id = e.id => e2 = [e EXCEPT !.read_at = e2.read_at]

\* an entry stored under link "a" with title t1 and marked read, held by
\* the caller, which a refresh serving link "a" under title t2 and with a
\* date leaves as it is
C27_Witness ==
    /\ held # None
    /\ \E e \in db.entries, resp \in Responses :
          /\ e.id = held[1].id
          /\ e.link = Some("a") /\ e.title = Some("t1") /\ e.read_at # None
          /\ IsMiss(resp) /\ resp.body.entries = <<Dated>>
          /\ refresh_feed(db, e.feed_id, resp, 0, now).ok
          /\ e \in refresh_feed(db, e.feed_id, resp, 0, now).db.entries

\* the rows that do not belong to the feed: the other feed rows and the
\* entries stored under another feed_id
OtherRows(d, feed_id) ==
    [feeds   |-> { f \in d.feeds : f.id # feed_id },
     entries |-> { e \in d.entries : e.feed_id # feed_id }]

\* the clock readings a handler may run at: the present one, and one past
\* the retention window of everything stored so far
ClockReadings == { now, now + ENTRY_RETENTION_DAYS + 1 }

\* the handlers on one feed leave the rows of the other feeds as they are
FrameAcrossFeeds ==
    /\ \A feed_id \in FeedIds, fault \in FaultPoints, t \in ClockReadings :
          /\ \A resp \in ShortResponses :
                OtherRows(refresh_feed(db, feed_id, resp, fault, t).db, feed_id)
                    = OtherRows(db, feed_id)
          /\ OtherRows(delete_feed(db, feed_id, fault, t).db, feed_id)
                = OtherRows(db, feed_id)
          /\ \A title \in NewTitles :
                OtherRows(update_feed_title(db, feed_id, title, fault, t).db, feed_id)
                    = OtherRows(db, feed_id)
    /\ held # None =>
          \A fault \in 0..1, t \in ClockReadings :
              OtherRows(toggle_read(db, held[1], fault, t).db, held[1].feed_id)
                  = OtherRows(db, held[1].feed_id)

\* the entries table after refresh_feed of `first` and then of `second`,
\* both at clock reading t
RefreshedInOrder(first, resp1, second, resp2, t) ==
    refresh_feed(refresh_feed(db, first, resp1, 0, t).db,
                 second, resp2, 0, t).db.entries

\* the stored entries without the id that AUTOINCREMENT gave each
WithoutIds(entries) ==
    { [feed_id |-> e.feed_id, title |-> e.title, pub_date |-> e.pub_date,
       link |-> e.link, read_at |-> e.read_at, inserted_at |-> e.inserted_at]
      : e \in entries }

\* C28 as stated: refresh_feed, delete_feed, update_feed_title and a read
\* toggle on feed A leave the feed rows and the entries of every other feed
\* unchanged, and refreshing two feeds in either order, given the same
\* responses, yields the same entries table, ids included.
C28_SameEntriesEitherOrder ==
    /\ FrameAcrossFeeds
    /\ \A a \in FeedIds, b \in FeedIds, ra \in ShortResponses, rb \in ShortResponses,
          t \in ClockReadings :
          a < b => RefreshedInOrder(a, ra, b, rb, t) = RefreshedInOrder(b, rb, a, ra, t)

\* C28 amended: refresh_feed, delete_feed, update_feed_title and a read
\* toggle on feed A leave the feed rows and the entries of every other feed
\* unchanged, and refreshing two feeds in either order, given the same
\* responses and the same clock reading, stores the same number of entries
\* under the same set of ids, with the same feed_id, title, pub_date, link,
\* read_at and inserted_at; which entry gets which of the new ids follows
\* the order of the refreshes.
C28_FrameAcrossFeeds ==
    /\ FrameAcrossFeeds
    /\ \A a \in FeedIds, b \in FeedIds, ra \in ShortResponses, rb \in ShortResponses,
          t \in ClockReadings :
          a < b =>
            LET ab == RefreshedInOrder(a, ra, b, rb, t)
                ba == RefreshedInOrder(b, rb, a, ra, t)
            IN  /\ WithoutIds(ab) = WithoutIds(ba)
                /\ Cardinality(ab) = Cardinality(ba)
                /\ EntryIds([entries |-> ab]) = EntryIds([entries |-> ba])

\* two feeds are stored, the second holds an entry, and a refresh of the
\* first inserts an entry of its own
C28_Witness ==
    \E a \in FeedIds, b \in FeedIds, resp \in ShortResponses :
        /\ a # b
        /\ \E fa \in db.feeds, fb \in db.feeds : fa.id = a /\ fb.id = b
        /\ \E e \in db.entries : e.feed_id = b
        /\ refresh_feed(db, a, resp, 0, now).ok
        /\ \E e \in refresh_feed(db, a, resp, 0, now).db.entries :
              e.feed_id = a /\ e \notin db.entries

\* C29: a self-closing tag has the same effect on the parse result as its
\* start tag immediately followed by its end tag: the document the parser
\* was handed and the document with every self-closing tag written as a
\* start and end pair parse to the same result.
C29_SelfClosingIsStartThenEnd ==
    parser.status # "idle" =>
        parse_feed_streaming(parser.input, "u1")
            = parse_feed_streaming(Document(Expanded(parser.input.events)), "u1")

\* the parser is about to read the end tag of a link element
AtEndOfLink ==
    /\ parser.status = "reading"
    /\ parser.pos < Len(parser.input.events)
    /\ parser.input.events[parser.pos + 1].t = "End"
    /\ local_name(parser.input.events[parser.pos + 1].name) = <<"link">>
    /\ ReadStep(parser).status = "reading"

\* the href captured at the start tag when there is one, else the text
\* accumulated since, if any
LinkValue(st) ==
    IF st.current_link_href # None THEN st.current_link_href
    ELSE IF st.current_text # <<>> THEN Some(st.current_text)
    ELSE None

\* C30: at the end tag of a link element the value taken is the href
\* captured at its start tag when there is one, else the accumulated text:
\* inside an item or entry it becomes the link of the entry, at feed level
\* the link of the feed when the feed has none yet.
C30_LinkValueAtEnd ==
    AtEndOfLink =>
        LET st == parser.st
            st2 == ReadStep(parser).st
        IN  LinkValue(st) # None =>
              IF st.in_item \/ st.in_entry
              THEN st2.current_entry.link = LinkValue(st)
              ELSE st.feed_link = None => st2.feed_link = LinkValue(st)

\* The values of the link elements of a document that lie outside every
\* item and entry, in document order: for each such element its href
\* attribute when it has one, else its text when it has one.  `depth`
\* counts the open items and entries, `href` and `text` belong to the link
\* element that is open.
RECURSIVE SiteLinkValues(_, _, _, _)
SiteLinkValues(events, depth, href, text) ==
    IF events = <<>> THEN <<>>
    ELSE
    LET e == Head(events)
        rest == Tail(events)
        name == IF e.t \in {"Start", "Empty", "End"} THEN local_name(e.name) ELSE <<>>
        nests == name \in { <<"item">>, <<"entry">> }
    IN  CASE e.t = "Start" /\ nests -> SiteLinkValues(rest, depth + 1, href, text)
          [] e.t = "End" /\ nests ->
                SiteLinkValues(rest, IF depth > 0 THEN depth - 1 ELSE 0, href, text)
          [] e.t = "Start" /\ name = <<"link">> ->
                SiteLinkValues(rest, depth, Href(e.attrs), <<>>)
          [] e.t = "Empty" /\ name = <<"link">> ->
                (IF depth = 0 /\ Href(e.attrs) # None THEN <<Href(e.attrs)[1]>> ELSE <<>>)
                    \o SiteLinkValues(rest, depth, href, text)
          [] e.t \in {"Text", "CData"} ->
                SiteLinkValues(rest, depth, href, text \o e.text)
          [] e.t = "End" /\ name = <<"link">> ->
                (IF depth > 0 THEN <<>>
                 ELSE IF href # None THEN <<href[1]>>
                 ELSE IF text # <<>> THEN <<text>>
                 ELSE <<>>) \o SiteLinkValues(rest, depth, None, <<>>)
          [] OTHER -> SiteLinkValues(rest, depth, href, text)

\* C31: the site link of the parse result is the value (href attribute or
\* text) of the first link element, in document order, that lies outside
\* every item and entry and has a value; later feed-level links and links
\* inside items and entries never replace it.
C31_FirstSiteLinkWins ==
    parser.status = "ok" =>
        LET values == SiteLinkValues(parser.input.events, 0, None, <<>>)
        IN  parser.st.feed_link = IF values = <<>> THEN None ELSE Some(values[1])

\* C32: when the only date element of an item or entry is a pubDate,
\* published, updated or dc:date element whose text is a parseable date,
\* the pub_date of the parsed entry is that date.
C32_EveryDateTagSetsPubDate ==
    parser.status = "ok" =>
        \A i \in 1..(Len(parser.input.events) - 1) :
            LET e == parser.input.events[i]
                t == parser.input.events[i + 1]
            IN  (/\ e.t = "Start" /\ e.name \in WrittenDateTags
                 /\ t.t = "Text" /\ parse_datetime(t.text) # None)
                => /\ Len(parser.st.entries) = 1
                   /\ parser.st.entries[1].pub_date = parse_datetime(t.text)

\* the texts of the non-empty elements of the given tag among the children
TextsOf(children, tag) ==
    { children[i].text : i \in { j \in 1..Len(children) :
                                   children[j].tag = tag /\ children[j].text # <<>> } }

NoKindTag(doc) ==
    \A i \in 1..Len(doc.events) :
        doc.events[i].t = "Start" =>
            local_name(doc.events[i].name) \notin { <<"feed">>, <<"rss">>, <<"RDF">> }

\* C34: a document without a start tag named feed, rss or RDF makes the
\* parse fail with "could not determine feed type" whatever items and
\* entries it has, and a subscribe or a refresh that is served it fails and
\* leaves the database as it was.
C34_NoKindNoFeed ==
    \A doc \in ServedDocs :
        NoKindTag(doc) =>
            LET resp == Served(doc)
            IN  /\ parse_feed_streaming(doc, "u1")
                      = [ok |-> FALSE, why |-> "could not determine feed type"]
                /\ \A url \in Urls :
                      LET r == subscribe_to_feed(db, url, resp, 0, now)
                      IN  ~r.ok /\ r.db = db
                /\ \A feed_id \in FeedIds :
                      LET r == refresh_feed(db, feed_id, resp, 0, now)
                      IN  ~r.ok /\ r.db = db

\* a feed is stored, and a refresh of it is served a document without a
\* feed, rss or RDF start tag whose item has a link that is not stored
C34_Witness ==
    \E f \in db.feeds, doc \in ServedDocs :
        /\ NoKindTag(doc)
        /\ \E i \in 1..Len(doc.events) :
              doc.events[i].t = "Start" /\ doc.events[i].name = Bare("item")
        /\ \A e \in db.entries : e.link # Some(Url2)
        /\ ~refresh_feed(db, f.id, Served(doc), 0, now).ok

\* the body has bytes that are not UTF-8, a syntax error, an end tag that
\* closes another element than the innermost open one, or a text that
\* cannot be unescaped
RECURSIVE Crossed(_, _)
Crossed(events, open) ==
    IF events = <<>> THEN FALSE
    ELSE LET e == Head(events)
         IN  CASE e.t = "Start" -> Crossed(Tail(events), Append(open, e.name))
               [] e.t = "End" ->
                    IF open = <<>> \/ open[Len(open)] # e.name
                    THEN TRUE
                    ELSE Crossed(Tail(events), SubSeq(open, 1, Len(open) - 1))
               [] OTHER -> Crossed(Tail(events), open)

HasFailure(doc) ==
    \/ ~doc.utf8
    \/ \E i \in 1..Len(doc.events) :
          \/ doc.events[i].t = "Error"
          \/ doc.events[i].t = "Text" /\ unescape(doc.events[i].text) = None
    \/ Crossed(doc.events, <<>>)

\* C35: a body with a decode or well-formedness failure (bytes that are not
\* valid UTF-8, a text that cannot be unescaped, malformed XML) never parses
\* to a result: the parse ends in an error, and no feed or entry list with
\* a dropped or emptied value is returned.
C35_FailuresAbortTheParse ==
    (parser.status = "ok") => ~HasFailure(parser.input)

\* C36: toggle_read inverts the stored read state: when it returns Ok on an
\* EntryMetadata value whose entry is stored, the entry is stored as read
\* afterwards if and only if it was stored as unread before, also when the
\* value was loaded before an earlier toggle of the entry.
C36_ToggleInvertsStoredState ==
    held # None =>
        \A e \in db.entries :
            e.id = held[1].id =>
                LET r == toggle_read(db, held[1], 0, now)
                IN  r.ok =>
                      \A e2 \in r.db.entries :
                          e2.id = e.id => ((e2.read_at # None) <=> (e.read_at = None))

\* the entries of a listing
RowsOf(q) == { q[i] : i \in 1..Len(q) }

\* C37: for every feed the ShowUnread and ShowRead listings are disjoint,
\* together they hold exactly the entries of the All listing, each once,
\* and count_unread_entries is the length of the ShowUnread listing.
C37_ReadModesPartition ==
    db.user_version # 0 =>
        \A feed_id \in FeedIds :
            \A qa \in get_entries_metas(db, "All", feed_id).rows,
               qu \in get_entries_metas(db, "ShowUnread", feed_id).rows,
               qr \in get_entries_metas(db, "ShowRead", feed_id).rows :
                /\ RowsOf(qu) \cap RowsOf(qr) = {}
                /\ RowsOf(qu) \cup RowsOf(qr) = RowsOf(qa)
                /\ Len(qu) + Len(qr) = Len(qa)
                /\ Len(qa) = Cardinality(RowsOf(qa))
                /\ count_unread_entries(db, feed_id) = Len(qu)

\* a feed holds an entry that is read and an entry that is unread
C37_Witness ==
    /\ db.user_version # 0
    /\ \E e, x \in db.entries :
          /\ e.feed_id = x.feed_id
          /\ e.read_at # None
          /\ x.read_at = None
          /\ \E qu \in get_entries_metas(db, "ShowUnread", e.feed_id).rows : Len(qu) = 1
          /\ \E qr \in get_entries_metas(db, "ShowRead", e.feed_id).rows : Len(qr) = 1

\* the sum of count_unread_entries over the feeds of the given ids
RECURSIVE SumUnread(_, _)
SumUnread(d, ids) ==
    IF ids = {} THEN 0
    ELSE LET id == CHOOSE i \in ids : TRUE
         IN  count_unread_entries(d, id) + SumUnread(d, ids \ {id})

\* C38: the combined unread view holds every unread entry of every stored
\* feed exactly once, its length is the sum of count_unread_entries over
\* the stored feeds, and it holds no entry of a feed that is not stored.
C38_CombinedUnreadView ==
    db.user_version # 0 =>
        LET res == get_all_unread_entries_with_feed_name(db)
            stored == { f.id : f \in db.feeds }
        IN  /\ res.ok
            /\ res.rows # {}
            /\ \A q \in res.rows :
                  /\ { q[i].entry : i \in 1..Len(q) }
                        = { e \in db.entries : e.read_at = None }
                  /\ \A i, j \in 1..Len(q) : q[i].entry = q[j].entry => i = j
                  /\ Len(q) = SumUnread(db, stored)
                  /\ \A i \in 1..Len(q) : q[i].entry.feed_id \in stored

\* a feed was deleted with its entry, and the unread entry of a feed that
\* is stored is shown
C38_Witness ==
    /\ db.user_version # 0
    /\ Cardinality(db.feeds) < db.seq_feeds
    /\ Cardinality(db.entries) < db.seq_entries
    /\ \E e \in db.entries : e.read_at = None
    /\ \E q \in get_all_unread_entries_with_feed_name(db).rows : Len(q) = 1

\* C39: after any sequence of next, previous, reset and unselect no call
\* has panicked and the selected index is none or an index of items, also
\* on an empty list; on a list with items next from the last index selects
\* 0 and previous from 0 selects the last index.
C39_SelectionStaysValid ==
    /\ ~list.panicked
    /\ list.selected # None => list.selected[1] < Len(list.items)
    /\ \A checks \in BOOLEAN :
          /\ ~list_next(list, checks).panicked
          /\ ~list_previous(list, checks).panicked
          /\ (list.items # <<>> /\ list.selected = Some(Len(list.items) - 1)) =>
                list_next(list, checks).selected = Some(0)
          /\ (list.items # <<>> /\ list.selected = Some(0)) =>
                list_previous(list, checks).selected = Some(Len(list.items) - 1)

\* the locals of the parser after the first k events
RECURSIVE StAfter(_, _)
StAfter(events, k) ==
    IF k = 0 THEN InitialParse ELSE OnEvent(StAfter(events, k - 1), events[k])

\* the event at which the k-th entry was appended
PushPosition(events, k) ==
    Min({ p \in 1..Len(events) : Len(StAfter(events, p).entries) >= k })

\* the start tag that the end tag at position p closes
MatchingStart(events, p) ==
    LET same(i) == events[i].t \in {"Start", "End"} /\ events[i].name = events[p].name
        opened(x, y) == Cardinality({ i \in x..y : same(i) /\ events[i].t = "Start" })
        closed(x, y) == Cardinality({ i \in x..y : same(i) /\ events[i].t = "End" })
    IN  Max({ x \in 1..(p - 1) :
                /\ same(x) /\ events[x].t = "Start"
                /\ opened(x + 1, p - 1) = closed(x + 1, p - 1) })

\* the texts and href values of the events strictly between two positions
ValuesBetween(events, x, y) ==
    { events[i].text : i \in { j \in (x + 1)..(y - 1) : events[j].t \in {"Text", "CData"} } }
    \cup { Href(events[i].attrs)[1] :
              i \in { j \in (x + 1)..(y - 1) :
                         events[j].t \in {"Start", "Empty"} /\ Href(events[j].attrs) # None } }

\* every field of every appended entry was read between the entry's own
\* start tag and its own end tag
FieldsFromOwnElement ==
    \A k \in 1..Len(parser.st.entries) :
        LET events == parser.input.events
            p == PushPosition(events, k)
            own == ValuesBetween(events, MatchingStart(events, p), p)
            entry == parser.st.entries[k]
        IN  /\ entry.title # None => entry.title[1] \in own
            /\ entry.link # None => entry.link[1] \in own

\* C40: whatever start and end tags the parser processes, its "inside
\* item" and "inside entry" flags are never both set, and every entry it
\* appends carries only field values read between the entry's own start
\* tag and its own end tag.
C40_OneElementAtATime ==
    parser.status \in {"reading", "ok"} =>
        /\ ~(parser.st.in_item /\ parser.st.in_entry)
        /\ FieldsFromOwnElement

====
